---- MODULE Spec2Model ----
(***************************************************************************)
(* Mempool tracker: the ingestion pipeline of src/src (app.rs, worker.rs,  *)
(* database.rs, migrations/mod.rs, utils.rs) as a state machine.           *)
(*                                                                         *)
(* The store is the SQLite file (tables transactions, rbf, mempool,        *)
(* mining_info, migrations).  The node is the upstream bitcoind (its       *)
(* mempool, its confirmed transactions, its ZMQ rawtx stream).  Workers    *)
(* are the TaskContext::run loops, one SQL statement or one RPC per step.  *)
(***************************************************************************)
EXTENDS Integers, Sequences, FiniteSets, TLC

VARIABLES
    transactions,   \* table transactions: its rows
    rbf,            \* table rbf: its rows
    mempool_tbl,    \* table mempool (snapshots), in insertion order
    mining_info,    \* table mining_info, in insertion order
    migrations,     \* table migrations: the set of ids in the ledger
    columns,        \* the columns the tables transactions and rbf have
    node_mempool,   \* the node: transactions in its mempool
    node_confirmed, \* the node: transactions in a block
    node_height,    \* the node: block count
    node_ibd,       \* the node: initial_block_download
    node_loaded,    \* the node: mempool loaded
    zmq,            \* the node's rawtx stream: payloads not yet received
    clock,          \* now!(), seconds
    budget,         \* events (of the node, of the timers) still to come
    queue,          \* the async_channel of tasks
    closed,         \* the channel has been closed
    wpc,            \* worker -> position in TaskContext::run
    wtask,          \* worker -> the transaction of the RawTx being handled
    wstatus,        \* worker -> outcome of the status and fee resolution of the task
    wexists,        \* worker -> result of the last tx_exists call
    wlist,          \* worker -> txid list held by the PruneCheck task
    app,            \* position of main / App::init / App::run
    srcs,           \* source task -> its state
    shutdown_sent,  \* the shutdown broadcast has been sent
    flushed,        \* App::run has flushed the store in its clean up
    started,        \* the process has been started before
    boot,           \* the store as the current process found it
    cfg,            \* the command line: prune check enabled, mining info enabled
    blist,          \* App::extract_existing_mempool: mempool entries still to insert
    call            \* the Database method called last from outside the pipeline, and its result

store_vars == <<transactions, rbf, mempool_tbl, mining_info, migrations, columns>>
node_vars == <<node_mempool, node_confirmed, node_height, node_ibd, node_loaded>>
worker_vars == <<wpc, wtask, wstatus, wexists, wlist>>
app_vars == <<app, srcs, shutdown_sent, flushed, started, boot, cfg, blist, call>>
vars == <<store_vars, node_vars, zmq, clock, budget, queue, closed, worker_vars, app_vars>>

----------------------------------------------------------------------------
(* Bounds of the model *)

\* events per behaviour: broadcasts, blocks, evictions, bad messages, timer expiries
MaxEvents == 2
\* capacity of the task queue in the model
QueueCap == 1
\* node events, ticks and restarts in a behaviour of the whole process
MaxAppEvents == 1
\* calls of Database methods in a behaviour of the store alone
MaxCalls == 4
\* starts of the process in a behaviour of the migrator alone
MaxStarts == 3
\* timer expiries in a behaviour of App::run with a silent node
MaxTicks == 2
\* the largest output value and the largest weight of the transactions the fee
\* resolver is given
MaxValue == 101
MaxWeight == 8

(* Program constants *)

\* --num-workers, default_value_t = 2
NumWorkers == 2
MEMPOOL_TRANSACTION_VERSION == 1
RBF_TRANSACTION_VERSION == 1
COINBASE_TRANSACTION_VERSION == 0
MEMPOOL_STATE_VERSION == 1

Workers == 1..NumWorkers

\* NULL of a DATETIME column; now!() is at least 1
NULL == 0
\* NULL of a TEXT column
NULLTEXT == "NULL"

----------------------------------------------------------------------------
(* Transactions.  A is funded by the confirmed output f:0; B spends the    *)
(* same output (a fee bump of A); C spends output 0 of A (a child of A);   *)
(* K is a coinbase.  BAD is a payload that is no transaction.              *)

NullOutPoint == [txid |-> "0", vout |-> -1]

TxIn(prev_txid, vout, witness) ==
    [previous_output |-> [txid |-> prev_txid, vout |-> vout], witness |-> witness]

Transaction(p) ==
    CASE p = "A" -> [id |-> "A", input |-> <<TxIn("f", 0, "sigA")>>, output |-> <<60, 30>>, weight |-> 16]
      [] p = "B" -> [id |-> "B", input |-> <<TxIn("f", 0, "sigB")>>, output |-> <<60, 20>>, weight |-> 16]
      [] p = "C" -> [id |-> "C", input |-> <<TxIn("a", 0, "sigC")>>, output |-> <<50>>, weight |-> 13]
      [] p = "K" -> [id |-> "K", input |-> <<[previous_output |-> NullOutPoint, witness |-> "res"]>>,
                     output |-> <<50>>, weight |-> 12]

MempoolTxs == {"A", "B", "C"}
Payloads == MempoolTxs \cup {"K", "BAD"}

\* Transaction::consensus_decode
Decodable(p) == p \in MempoolTxs \cup {"K"}

\* Transaction::is_coinbase
is_coinbase(tx) == Len(tx.input) = 1 /\ tx.input[1].previous_output = NullOutPoint

\* Transaction::compute_txid: a digest of the transaction without its witnesses
compute_txid(tx) ==
    CASE tx.id = "A" -> "a" [] tx.id = "B" -> "b" [] tx.id = "C" -> "c" [] tx.id = "K" -> "k"

Txids == {"a", "b", "c", "k"}

\* get_inputs_hash: SHA-256 over the encoding of each input in order; the encoding
\* of an input (TxIn::consensus_encode) does not hold its witness
get_inputs_hash(input) ==
    LET enc == [i \in DOMAIN input |-> input[i].previous_output]
    IN  CASE enc = <<[txid |-> "f", vout |-> 0]>> -> "h_f0"
          [] enc = <<[txid |-> "a", vout |-> 0]>> -> "h_a0"
          [] enc = <<NullOutPoint>> -> "h_null"

\* Transaction::consensus_encode, hex: the transaction, and whether witnesses are in it
consensus_encode(tx) ==
    [id |-> tx.id, witness |-> [i \in DOMAIN tx.input |-> tx.input[i].witness]]

\* the transactions that conflict with t in the node's mempool (same inputs)
Conflicts(t) ==
    {u \in MempoolTxs \ {t} : get_inputs_hash(Transaction(u).input) = get_inputs_hash(Transaction(t).input)}

\* the transactions of the model that spend an output of t
Children(t) ==
    {u \in MempoolTxs : \E i \in DOMAIN Transaction(u).input :
        Transaction(u).input[i].previous_output.txid = compute_txid(Transaction(t))}

Parents(t) == {u \in MempoolTxs : t \in Children(u)}

----------------------------------------------------------------------------
(* Fee resolver *)

\* value of the output a previous outpoint names (the node's answer)
PrevOutValue(op) ==
    CASE op.txid = "f" -> 100
      [] op.txid = "a" -> Transaction("A").output[op.vout + 1]

RECURSIVE SumSeq(_)
SumSeq(s) == IF s = <<>> THEN 0 ELSE Head(s) + SumSeq(Tail(s))

\* worker.rs get_absolute_fee, when every RPC answers
get_absolute_fee(tx) ==
    IF is_coinbase(tx) THEN 0
    ELSE SumSeq([i \in DOMAIN tx.input |-> PrevOutValue(tx.input[i].previous_output)])
         - SumSeq(tx.output)

\* utils.rs compute_fee_rate: fee / ceil(weight / 4), as sat/vB
compute_fee_rate(tx, absolute_fee) ==
    IF is_coinbase(tx) THEN 0
    ELSE absolute_fee \div ((tx.weight + 3) \div 4)

\* worker.rs get_absolute_fee with its failures: resolves tells whether the node
\* answers the requests for the previous transactions.  The error of a request is
\* returned; input_value - output_value is the subtraction of Amount, which panics
\* when the result would be below zero
GetAbsoluteFee(tx, resolves) ==
    IF is_coinbase(tx) THEN [ret |-> "Ok", value |-> 0]
    ELSE IF ~resolves THEN [ret |-> "Err"]
    ELSE LET input_value ==
                 SumSeq([i \in DOMAIN tx.input |-> PrevOutValue(tx.input[i].previous_output)])
             output_value == SumSeq(tx.output)
         IN  IF input_value < output_value THEN [ret |-> "Panic"]
             ELSE [ret |-> "Ok", value |-> input_value - output_value]

\* Weight::to_vbytes_ceil
to_vbytes_ceil(weight) == (weight + 3) \div 4

\* a from_sat_per_vb that has no rate for 0, as the message "Fee rate is 0" would have it
from_sat_per_vb_nonzero(sat_vb) ==
    IF sat_vb = 0 THEN [some |-> FALSE, sat_kwu |-> 0] ELSE [some |-> TRUE, sat_kwu |-> sat_vb * 250]

\* FeeRate::from_sat_per_vb: the rate in sat per 1000 weight units; None only when the
\* product leaves u64, which takes a rate above 2^64 / 250 sat/vB
from_sat_per_vb(sat_vb) == [some |-> TRUE, sat_kwu |-> sat_vb * 250]

\* FeeRate::to_sat_per_vb_ceil
to_sat_per_vb_ceil(sat_kwu) == (sat_kwu + 249) \div 250

\* utils.rs compute_fee_rate with its Result: the FeeRate, or the error of ok_or
ComputeFeeRate(tx, absolute_fee) ==
    IF is_coinbase(tx) THEN [ret |-> "Ok", sat_kwu |-> 0]
    ELSE LET fee_rate == from_sat_per_vb(absolute_fee \div to_vbytes_ceil(tx.weight))
         IN  IF fee_rate.some THEN [ret |-> "Ok", sat_kwu |-> fee_rate.sat_kwu]
             ELSE [ret |-> "Err"]

----------------------------------------------------------------------------
(* Store: database.rs, one operator per SQL statement *)

\* the columns after Database::new (the CREATE TABLE statements)
CreatedColumns ==
    {"transactions.inputs_hash", "transactions.tx_id", "transactions.tx_data",
     "transactions.found_at", "transactions.mined_at", "transactions.pruned_at",
     "transactions.parent_txid", "transactions.absolute_fee", "transactions.fee_rate",
     "transactions.version",
     "rbf.inputs_hash", "rbf.created_at", "rbf.fee_total", "rbf.version"}

\* migrations/mod.rs run_migrations: the ids in declaration order
MigrationIds ==
    <<"update_child_txid_col_name", "add_tx_not_seen_in_mempool", "add_replacement_txid", "parent_txid">>

\* whether the ALTER TABLE of migration i succeeds on the columns cols
MigrationApplies(i, cols) ==
    CASE i = 1 -> "transactions.parent_txid" \in cols /\ "transactions.child_txid" \notin cols
      [] i = 2 -> "transactions.seen_in_mempool" \notin cols
      [] i = 3 -> "rbf.replaces" \notin cols
      [] i = 4 -> "transactions.parent_txid" \notin cols

\* the columns after the ALTER TABLE of migration i
MigrationColumns(i, cols) ==
    CASE i = 1 -> (cols \ {"transactions.parent_txid"}) \cup {"transactions.child_txid"}
      [] i = 2 -> cols \cup {"transactions.seen_in_mempool"}
      [] i = 3 -> cols \cup {"rbf.replaces"}
      [] i = 4 -> cols \cup {"transactions.parent_txid"}

\* an already_applied that counts the rows of the ledger, whatever their id
already_applied_any(ledger, id) == ledger # {}

\* already_applied: SELECT COUNT(*) FROM migrations WHERE id = ? is above 0
already_applied(ledger, id) == id \in ledger

\* run_migrations from migration i on: a migration whose id is in the ledger is
\* skipped, the others alter the table and add their id; the error of an ALTER TABLE
\* that fails is returned
RECURSIVE run_migrations(_, _)
run_migrations(i, db) ==
    IF i > Len(MigrationIds) \/ ~db.ok THEN db
    ELSE IF MigrationIds[i] \in db.migrations THEN run_migrations(i + 1, db)
    ELSE IF MigrationApplies(i, db.columns)
         THEN run_migrations(i + 1, [columns |-> MigrationColumns(i, db.columns),
                                     migrations |-> db.migrations \cup {MigrationIds[i]},
                                     ok |-> TRUE])
         ELSE [db EXCEPT !.ok = FALSE]

\* a file created by Database::new and migrated by run_migrations
Migrated == run_migrations(1, [columns |-> CreatedColumns, migrations |-> {}, ok |-> TRUE])

\* the store: what the file holds
Store ==
    [transactions |-> transactions, rbf |-> rbf, mempool_tbl |-> mempool_tbl,
     mining_info |-> mining_info, migrations |-> migrations, columns |-> columns]

\* a row of transactions; a column the INSERT does not name gets its default
Row(inputs_hash, tx_id, tx_data, found_at, mined_at, absolute_fee, fee_rate, version) ==
    [inputs_hash |-> inputs_hash, tx_id |-> tx_id, tx_data |-> tx_data, found_at |-> found_at,
     mined_at |-> mined_at, pruned_at |-> NULL, child_txid |-> NULLTEXT,
     parent_txid |-> NULLTEXT, absolute_fee |-> absolute_fee, fee_rate |-> fee_rate,
     version |-> version, seen_in_mempool |-> TRUE]

\* WHERE pruned_at IS NULL AND mined_at IS NULL
Live(row) == row.mined_at = NULL /\ row.pruned_at = NULL

\* WHERE inputs_hash = ?
WithHash(table, inputs_hash) == {r \in table : r.inputs_hash = inputs_hash}

\* INSERT OR REPLACE on a table whose primary key is inputs_hash
\* an INSERT that replaces no row: what INSERT OR REPLACE would be without the key
UpsertKeepsBoth(table, row) == table \cup {row}

Upsert(table, row) == (table \ WithHash(table, row.inputs_hash)) \cup {row}

\* UPDATE table SET ... WHERE ...: set(r) is the row r after the assignments
Update(table, where(_), set(_)) == {IF where(r) THEN set(r) ELSE r : r \in table}

\* prune_large_witnesses, imported by database.rs from utils, whose body is not
\* in src/: every input's witness is cleared, as spec.md describes it
prune_large_witnesses(tx) ==
    [tx EXCEPT !.input = [i \in DOMAIN tx.input |-> [tx.input[i] EXCEPT !.witness = ""]]]

\* record_coinbase_tx; found_at and mined_at are its two readings of now!()
record_coinbase_tx(T, tx, found_at, mined_at) ==
    IF ~is_coinbase(tx) THEN T
    ELSE Upsert(T, Row(compute_txid(tx), compute_txid(tx), consensus_encode(tx), found_at,
                       mined_at, 0, 0, COINBASE_TRANSACTION_VERSION))

\* tx_exists
tx_exists(T, tx) == WithHash(T, get_inputs_hash(tx.input)) # {}

\* a record_mined_tx that stores the transaction as it was given
record_mined_tx_unpruned(T, tx, tx_in_mempool, now) ==
    {IF r.inputs_hash = get_inputs_hash(tx.input)
     THEN [r EXCEPT !.mined_at = now, !.tx_data = consensus_encode(tx),
                    !.seen_in_mempool = tx_in_mempool]
     ELSE r : r \in T}

\* record_mined_tx, its UPDATE; tx_in_mempool is what its tx_exists call returned
record_mined_tx(T, tx, tx_in_mempool, now) ==
    LET pruned == prune_large_witnesses(tx)
        where(r) == r.inputs_hash = get_inputs_hash(pruned.input)
        set(r) == [r EXCEPT !.mined_at = now, !.tx_data = consensus_encode(pruned),
                            !.seen_in_mempool = tx_in_mempool]
    IN  Update(T, where, set)

\* txids_in_mempool
txids_in_mempool(T) == {r.tx_id : r \in {x \in T : Live(x)}}

\* a txids_of_txs_not_in_list without the return on an empty list
txids_not_in_list_unguarded(T, txids) == {t \in txids_in_mempool(T) : t \notin txids}

\* txids_of_txs_not_in_list
txids_of_txs_not_in_list(T, txids) ==
    IF txids = {} THEN {} ELSE {t \in txids_in_mempool(T) : t \notin txids}

\* record_pruned_txs
record_pruned_txs(T, txids, now) ==
    LET where(r) == r.tx_id \in txids
        set(r) == [r EXCEPT !.pruned_at = now]
    IN  IF txids = {} THEN T ELSE Update(T, where, set)

\* insert_mempool_tx, the SELECT COUNT(*) of its loop over the inputs
LiveParentExists(T, parent_txid) == \E r \in T : r.tx_id = parent_txid /\ Live(r)

\* insert_mempool_tx, the UPDATE of its loop: it names the column is_cpfp_parent
CpfpUpdateColumns == {"transactions.child_txid", "transactions.is_cpfp_parent"}

\* insert_mempool_tx, the UPDATE of its loop when the statement prepares
MarkCpfpParent(T, tx_id, parent_txid) ==
    LET where(r) == r.tx_id = parent_txid
        set(r) == [r EXCEPT !.child_txid = tx_id]
    IN  Update(T, where, set)

\* an INSERT OR IGNORE: the row of an inputs_hash the table holds stays as it is
insert_or_ignore(T, tx, found_at, absolute_fee, fee_rate) ==
    IF WithHash(T, get_inputs_hash(tx.input)) # {} THEN T
    ELSE T \cup {Row(get_inputs_hash(tx.input), compute_txid(tx), consensus_encode(tx), found_at,
                     NULL, absolute_fee, fee_rate, MEMPOOL_TRANSACTION_VERSION)}

\* insert_mempool_tx, its INSERT OR REPLACE
insert_mempool_tx(T, tx, found_at, absolute_fee, fee_rate) ==
    Upsert(T, Row(get_inputs_hash(tx.input), compute_txid(tx), consensus_encode(tx), found_at,
                  NULL, absolute_fee, fee_rate, MEMPOOL_TRANSACTION_VERSION))

\* Database::is_cpfp_parent: SELECT is_cpfp_parent of the row of the txid; an error
\* when the table has no such column.  The UPDATE of insert_mempool_tx is the one
\* statement that names the column, and it sets it together with child_txid
is_cpfp_parent(T, cols, txid) ==
    IF "transactions.is_cpfp_parent" \notin cols THEN [ret |-> "Err"]
    ELSE [ret |-> "Ok", value |-> \E r \in T : r.tx_id = txid /\ r.child_txid # NULLTEXT]

\* insert_mempool_tx, its loop from input i on: the SELECT COUNT(*) and, when it counts
\* a row, the UPDATE; the error of an UPDATE that names a column the table does not
\* have is returned, and the statements before it stay done
RECURSIVE CpfpLoop(_, _, _, _)
CpfpLoop(T, cols, tx, i) ==
    IF i > Len(tx.input) THEN [ret |-> "Ok", transactions |-> T]
    ELSE IF ~LiveParentExists(T, tx.input[i].previous_output.txid)
         THEN CpfpLoop(T, cols, tx, i + 1)
         ELSE IF CpfpUpdateColumns \subseteq cols
              THEN CpfpLoop(MarkCpfpParent(T, compute_txid(tx), tx.input[i].previous_output.txid),
                            cols, tx, i + 1)
              ELSE [ret |-> "Err", transactions |-> T]

\* insert_mempool_tx as a whole; found_at is NULL for None, and then now is taken
InsertMempoolTx(T, cols, tx, found_at, now, absolute_fee, fee_rate) ==
    LET loop == CpfpLoop(T, cols, tx, 1)
    IN  IF loop.ret = "Err" THEN loop
        ELSE [ret |-> "Ok",
              transactions |-> insert_mempool_tx(loop.transactions, tx,
                                                 IF found_at = NULL THEN now ELSE found_at,
                                                 absolute_fee, fee_rate)]

\* how many times the row of inputs_hash in rbf has been written (not a column)
Rounds(R, inputs_hash) ==
    IF WithHash(R, inputs_hash) = {} THEN 0 ELSE (CHOOSE r \in WithHash(R, inputs_hash) : TRUE).rounds

\* a record_rbf that writes the tx_id of the row it finds into replaces
record_rbf_prior(R, T, tx, fee_total, now, by) ==
    IF WithHash(T, get_inputs_hash(tx.input)) = {} THEN R
    ELSE (R \ WithHash(R, get_inputs_hash(tx.input))) \cup
         {[inputs_hash |-> get_inputs_hash(tx.input), created_at |-> now,
           fee_total |-> fee_total,
           replaces |-> (CHOOSE r \in WithHash(T, get_inputs_hash(tx.input)) : TRUE).tx_id,
           version |-> RBF_TRANSACTION_VERSION, by |-> by, rounds |-> 1]}

\* a record_rbf that does not look for the row
record_rbf_unchecked(R, T, tx, fee_total, now, by) ==
    Upsert(R, [inputs_hash |-> get_inputs_hash(tx.input), created_at |-> now,
               fee_total |-> fee_total, replaces |-> compute_txid(tx),
               version |-> RBF_TRANSACTION_VERSION, by |-> by,
               rounds |-> Rounds(R, get_inputs_hash(tx.input)) + 1])

\* record_rbf on the table rbf; by is the worker that writes the row (not a column)
record_rbf(R, T, tx, fee_total, now, by) ==
    IF ~tx_exists(T, tx) THEN R
    ELSE Upsert(R, [inputs_hash |-> get_inputs_hash(tx.input), created_at |-> now,
                    fee_total |-> fee_total, replaces |-> compute_txid(tx),
                    version |-> RBF_TRANSACTION_VERSION, by |-> by,
                    rounds |-> Rounds(R, get_inputs_hash(tx.input)) + 1])

\* an UPDATE of tx_id that looks for the row by its tx_id
update_txid_by_tx_id(T, tx) ==
    {IF r.tx_id = compute_txid(tx) THEN [r EXCEPT !.tx_id = compute_txid(tx)] ELSE r : r \in T}

\* update_txid_by_inputs_hash
update_txid_by_inputs_hash(T, tx) ==
    LET where(r) == r.inputs_hash = get_inputs_hash(tx.input)
        set(r) == [r EXCEPT !.tx_id = compute_txid(tx)]
    IN  Update(T, where, set)

\* a DELETE of the rows that lack mined_at or pruned_at
remove_stale_txs_either(T) == {r \in T : r.mined_at # NULL /\ r.pruned_at # NULL}

\* remove_stale_txs
remove_stale_txs(T) == {r \in T : ~Live(r)}

\* a record_mempool_state whose INSERT OR REPLACE meets a key on the tip: the row of
\* the same block_height and block_hash is replaced
record_mempool_state_keyed(M, size, tx_count, block_height, block_hash, now) ==
    Append(SelectSeq(M, LAMBDA r : r.block_height # block_height \/ r.block_hash # block_hash),
           [created_at |-> now, size |-> size, tx_count |-> tx_count,
            block_height |-> block_height, block_hash |-> block_hash,
            version |-> MEMPOOL_STATE_VERSION])

\* record_mempool_state: the INSERT names no tx_id, so the key of the new row is NULL
\* and it replaces no row
record_mempool_state(M, size, tx_count, block_height, block_hash, now) ==
    Append(M, [created_at |-> now, size |-> size, tx_count |-> tx_count,
               block_height |-> block_height, block_hash |-> block_hash,
               version |-> MEMPOOL_STATE_VERSION])

\* record_mining_info
record_mining_info(I, doc, now) == Append(I, [created_at |-> now, hash_rate_distribution |-> doc])

\* no Database method has been called from outside the pipeline
NoCall ==
    [op |-> "none", tx |-> "", found_at |-> NULL, txids |-> {}, ret |-> "none", out |-> {},
     before |-> [transactions |-> {}, rbf |-> {}]]

----------------------------------------------------------------------------
(* The node and its rawtx stream.  Every event advances the clock. *)

Known == node_mempool \cup node_confirmed

Event ==
    /\ budget > 0
    /\ budget' = budget - 1
    /\ clock' = clock + 1

\* the node accepts t into its mempool, replacing what conflicts with it, and publishes it
Broadcast(t) ==
    /\ Event
    /\ t \notin Known
    /\ Parents(t) \subseteq Known
    /\ Conflicts(t) \cap node_confirmed = {}
    /\ LET gone == Conflicts(t) \cup UNION {Children(u) : u \in Conflicts(t)}
       IN  node_mempool' = (node_mempool \ gone) \cup {t}
    /\ zmq' = Append(zmq, t)
    /\ UNCHANGED <<node_confirmed, node_height, node_ibd, node_loaded>>

\* the transactions of a block in block order, after its coinbase
BlockOrder(S) ==
    LET first == IF "A" \in S THEN <<"A">> ELSE IF "B" \in S THEN <<"B">> ELSE <<>>
    IN  <<"K">> \o first \o (IF "C" \in S THEN <<"C">> ELSE <<>>)

\* a block confirms the transactions S of the node's mempool; the node publishes them
MineBlock(S) ==
    /\ Event
    /\ S \subseteq node_mempool
    /\ \A t \in S : Parents(t) \subseteq S \cup node_confirmed
    /\ node_confirmed' = node_confirmed \cup S \cup {"K"}
    /\ node_mempool' = node_mempool \ S
    /\ node_height' = node_height + 1
    /\ zmq' = zmq \o BlockOrder(S)
    /\ UNCHANGED <<node_ibd, node_loaded>>

\* the node drops t (expiry, size limit) and what spends it
Evict(t) ==
    /\ Event
    /\ t \in node_mempool
    /\ node_mempool' = node_mempool \ ({t} \cup Children(t))
    /\ UNCHANGED <<node_confirmed, node_height, node_ibd, node_loaded, zmq>>

\* the stream delivers a message that is no consensus-encoded transaction
BadPayload ==
    /\ Event
    /\ zmq' = Append(zmq, "BAD")
    /\ UNCHANGED node_vars

NodeEvent ==
    /\ \/ \E t \in MempoolTxs : Broadcast(t)
       \/ \E S \in SUBSET MempoolTxs : MineBlock(S)
       \/ \E t \in MempoolTxs : Evict(t)
       \/ BadPayload
    /\ UNCHANGED <<store_vars, queue, closed, worker_vars, app_vars>>

----------------------------------------------------------------------------
(* Tasks and sources: app.rs App::run *)

RawTx(raw) == [kind |-> "RawTx", raw |-> raw]
PruneCheck == [kind |-> "PruneCheck", raw |-> ""]
MempoolState == [kind |-> "MempoolState", raw |-> ""]
MiningInfo == [kind |-> "MiningInfo", raw |-> ""]

Tickers == {"mempool_state", "prune", "mining"}
Sources == Tickers \cup {"zmq"}

\* the task a source sends
TaskOf(s) ==
    CASE s = "mempool_state" -> MempoolState
      [] s = "prune" -> PruneCheck
      [] s = "mining" -> MiningInfo
      [] s = "zmq" -> RawTx(Head(zmq))

\* Sender::send on the bounded channel, for a source whose branch of select! is ready:
\* an error when the channel is closed, the task is queued when there is room,
\* and the source stays suspended in send otherwise
Send(s) ==
    IF closed THEN
        /\ srcs' = [srcs EXCEPT ![s] = "err"]
        /\ UNCHANGED <<queue, zmq>>
    ELSE IF Len(queue) < QueueCap THEN
        /\ queue' = Append(queue, TaskOf(s))
        /\ zmq' = IF s = "zmq" THEN Tail(zmq) ELSE zmq
        /\ srcs' = [srcs EXCEPT ![s] = "select"]
    ELSE
        /\ srcs' = [srcs EXCEPT ![s] = "send"]
        /\ UNCHANGED <<queue, zmq>>

\* a ticker's sleep ends and it sends its task
Tick(s) ==
    /\ srcs[s] = "select"
    /\ budget > 0
    /\ budget' = budget - 1
    /\ Send(s)
    /\ UNCHANGED <<store_vars, node_vars, clock, closed, worker_vars, app, shutdown_sent, flushed,
                   started, boot, cfg, blist, call>>

\* the subscriber receives the next message of the stream and sends it
ZmqMessage ==
    /\ srcs["zmq"] = "select"
    /\ zmq # <<>>
    /\ Send("zmq")
    /\ UNCHANGED <<store_vars, node_vars, clock, budget, closed, worker_vars, app, shutdown_sent,
                   flushed, started, boot, cfg, blist, call>>

\* a source suspended in send goes on when the channel has room or is closed
SendResumes(s) ==
    /\ srcs[s] = "send"
    /\ closed \/ Len(queue) < QueueCap
    /\ Send(s)
    /\ UNCHANGED <<store_vars, node_vars, clock, budget, closed, worker_vars, app, shutdown_sent,
                   flushed, started, boot, cfg, blist, call>>

SourceStep ==
    \/ \E s \in Tickers : Tick(s)
    \/ ZmqMessage
    \/ \E s \in Sources : SendResumes(s)

----------------------------------------------------------------------------
(* Workers: worker.rs TaskContext::run, one step per await or SQL statement *)

TaskTx(w) == Transaction(wtask[w])

\* no worker holds a task
NoWorkerState ==
    /\ wtask = [w \in Workers |-> ""]
    /\ wstatus = [w \in Workers |-> "none"]
    /\ wexists = [w \in Workers |-> FALSE]
    /\ wlist = [w \in Workers |-> {}]

\* the worker's position and the locals of the task it handles
Set(w, pc, task, status, exists, list) ==
    /\ wpc' = [wpc EXCEPT ![w] = pc]
    /\ wtask' = [wtask EXCEPT ![w] = task]
    /\ wstatus' = [wstatus EXCEPT ![w] = status]
    /\ wexists' = [wexists EXCEPT ![w] = exists]
    /\ wlist' = [wlist EXCEPT ![w] = list]

Goto(w, pc) == Set(w, pc, wtask[w], wstatus[w], wexists[w], wlist[w])

\* the end of the loop body, or a continue: back to tasks.recv()
Continue(w) == Set(w, "recv", "", "none", FALSE, {})

\* the ? operator on an Err: run returns the error
ReturnErr(w) == Set(w, "failed", "", "none", FALSE, {})

others_unchanged == UNCHANGED <<node_vars, zmq, clock, budget, closed, app_vars>>

\* where run goes with the task it received
Dispatch(task) ==
    CASE task.kind = "MiningInfo" -> "mining_info"
      [] task.kind = "MempoolState" -> "mempool_state"
      [] task.kind = "PruneCheck" -> "prune_fetch"
      [] task.kind = "RawTx" ->
            IF ~Decodable(task.raw) THEN "failed"
            ELSE IF is_coinbase(Transaction(task.raw)) THEN "coinbase"
            ELSE "resolve"

\* tasks.recv() returns a task; a RawTx is decoded, and run returns the error of a
\* payload that does not decode.  The workers are alike: of those suspended in recv
\* the one with the lowest number takes the task
Recv(w) ==
    /\ wpc[w] = "recv"
    /\ \A v \in Workers : v < w => wpc[v] # "recv"
    /\ queue # <<>>
    /\ queue' = Tail(queue)
    /\ IF Dispatch(Head(queue)) = "failed"
       THEN ReturnErr(w)
       ELSE Set(w, Dispatch(Head(queue)), Head(queue).raw, "none", FALSE, {})
    /\ UNCHANGED store_vars
    /\ others_unchanged

\* tasks.recv() returns an error: the channel is closed and empty, run returns Ok
RecvClosed(w) ==
    /\ wpc[w] = "recv"
    /\ queue = <<>>
    /\ closed
    /\ Goto(w, "stopped")
    /\ UNCHANGED <<store_vars, queue>>
    /\ others_unchanged

\* Task::MiningInfo: run returns the error of a failed request
MiningInfoTask(w) ==
    /\ wpc[w] = "mining_info"
    /\ \/ /\ mining_info' = record_mining_info(mining_info, "pools", clock)
          /\ Continue(w)
       \/ /\ ReturnErr(w)
          /\ UNCHANGED mining_info
    /\ UNCHANGED <<transactions, rbf, mempool_tbl, migrations, columns, queue>>
    /\ others_unchanged

\* Task::MempoolState: run returns the error of a failed RPC
MempoolStateTask(w) ==
    /\ wpc[w] = "mempool_state"
    /\ \/ /\ mempool_tbl' = record_mempool_state(mempool_tbl, Cardinality(node_mempool),
                                                 Cardinality(node_mempool), node_height,
                                                 node_height, clock)
          /\ Continue(w)
       \/ /\ ReturnErr(w)
          /\ UNCHANGED mempool_tbl
    /\ UNCHANGED <<transactions, rbf, mining_info, migrations, columns, queue>>
    /\ others_unchanged

\* check_for_pruned_txs: get_raw_mempool; its error is logged and the task dropped
PruneFetch(w) ==
    /\ wpc[w] = "prune_fetch"
    /\ \/ Set(w, "prune_diff", "", "none", FALSE,
              {compute_txid(Transaction(t)) : t \in node_mempool})
       \/ Continue(w)
    /\ UNCHANGED <<store_vars, queue>>
    /\ others_unchanged

\* check_for_pruned_txs: txids_of_txs_not_in_list on the blocking thread
PruneDiff(w) ==
    /\ wpc[w] = "prune_diff"
    /\ Set(w, "prune_write", "", "none", FALSE, txids_of_txs_not_in_list(transactions, wlist[w]))
    /\ UNCHANGED <<store_vars, queue>>
    /\ others_unchanged

\* check_for_pruned_txs: record_pruned_txs and flush
PruneWrite(w) ==
    /\ wpc[w] = "prune_write"
    /\ transactions' = record_pruned_txs(transactions, wlist[w], clock)
    /\ Continue(w)
    /\ UNCHANGED <<rbf, mempool_tbl, mining_info, migrations, columns, queue>>
    /\ others_unchanged

\* Task::RawTx of a coinbase: record_coinbase_tx.  It reads the clock twice; the turn
\* of the second between the two readings is an event of the behaviour
CoinbaseTx(w) ==
    /\ wpc[w] = "coinbase"
    /\ \/ /\ transactions' = record_coinbase_tx(transactions, TaskTx(w), clock, clock)
          /\ UNCHANGED <<clock, budget>>
       \/ /\ Event
          /\ transactions' = record_coinbase_tx(transactions, TaskTx(w), clock, clock + 1)
    /\ Continue(w)
    /\ UNCHANGED <<rbf, mempool_tbl, mining_info, migrations, columns, queue>>
    /\ UNCHANGED <<node_vars, zmq, closed, app_vars>>

\* the previous transactions get_absolute_fee fetches are known to the node
PrevoutsKnown(tx) ==
    \A i \in DOMAIN tx.input :
        \/ tx.input[i].previous_output.txid = "f"
        \/ \E u \in Known : compute_txid(Transaction(u)) = tx.input[i].previous_output.txid

\* a run that does not look at the confirmations
ClassifyUnmined(is_mined) == "tx_exists"

\* where run goes once status and fee are resolved
Classify(is_mined) == IF is_mined THEN "mined_exists" ELSE "tx_exists"

\* Task::RawTx: get_raw_transaction_verbosity_one, get_absolute_fee, compute_fee_rate;
\* an error of any of them is logged and the task dropped
Resolve(w) ==
    /\ wpc[w] = "resolve"
    /\ \/ /\ wtask[w] \in Known
          /\ PrevoutsKnown(TaskTx(w))
          /\ Set(w, Classify(wtask[w] \in node_confirmed), wtask[w],
                 IF wtask[w] \in node_confirmed THEN "mined" ELSE "unmined", FALSE, {})
       \/ Continue(w)
    /\ UNCHANGED <<store_vars, queue>>
    /\ others_unchanged

\* record_mined_tx: its tx_exists call
MinedExists(w) ==
    /\ wpc[w] = "mined_exists"
    /\ Set(w, "mined_update", wtask[w], wstatus[w],
           tx_exists(transactions, prune_large_witnesses(TaskTx(w))), {})
    /\ UNCHANGED <<store_vars, queue>>
    /\ others_unchanged

\* record_mined_tx: its UPDATE
MinedUpdate(w) ==
    /\ wpc[w] = "mined_update"
    /\ transactions' = record_mined_tx(transactions, TaskTx(w), wexists[w], clock)
    /\ Continue(w)
    /\ UNCHANGED <<rbf, mempool_tbl, mining_info, migrations, columns, queue>>
    /\ others_unchanged

\* where run goes after tx_exists
AfterExists(exists) == IF exists THEN "record_rbf" ELSE "cpfp_check"

\* Task::RawTx, not mined: tx_exists
TxExists(w) ==
    /\ wpc[w] = "tx_exists"
    /\ Set(w, AfterExists(tx_exists(transactions, TaskTx(w))), wtask[w], wstatus[w],
           tx_exists(transactions, TaskTx(w)), {})
    /\ UNCHANGED <<store_vars, queue>>
    /\ others_unchanged

\* Task::RawTx, the row exists: record_rbf
RecordRbf(w) ==
    /\ wpc[w] = "record_rbf"
    /\ rbf' = record_rbf(rbf, transactions, TaskTx(w), get_absolute_fee(TaskTx(w)), clock, w)
    /\ Goto(w, "update_txid")
    /\ UNCHANGED <<transactions, mempool_tbl, mining_info, migrations, columns, queue>>
    /\ others_unchanged

\* Task::RawTx, the row exists: update_txid_by_inputs_hash
UpdateTxid(w) ==
    /\ wpc[w] = "update_txid"
    /\ transactions' = update_txid_by_inputs_hash(transactions, TaskTx(w))
    /\ Continue(w)
    /\ UNCHANGED <<rbf, mempool_tbl, mining_info, migrations, columns, queue>>
    /\ others_unchanged

\* the txid of the previous output of the (one) input of the task's transaction
ParentTxid(w) == TaskTx(w).input[1].previous_output.txid

\* insert_mempool_tx: the SELECT COUNT(*) for the input
CpfpCheck(w) ==
    /\ wpc[w] = "cpfp_check"
    /\ Goto(w, IF LiveParentExists(transactions, ParentTxid(w)) THEN "cpfp_update" ELSE "insert")
    /\ UNCHANGED <<store_vars, queue>>
    /\ others_unchanged

\* insert_mempool_tx: the UPDATE of the parent; a statement that names a column the
\* table does not have is an error, which run returns
CpfpUpdate(w) ==
    /\ wpc[w] = "cpfp_update"
    /\ IF CpfpUpdateColumns \subseteq columns
       THEN /\ transactions' = MarkCpfpParent(transactions, compute_txid(TaskTx(w)), ParentTxid(w))
            /\ Goto(w, "insert")
       ELSE /\ ReturnErr(w)
            /\ UNCHANGED transactions
    /\ UNCHANGED <<rbf, mempool_tbl, mining_info, migrations, columns, queue>>
    /\ others_unchanged

\* insert_mempool_tx: the INSERT OR REPLACE, then flush
InsertTx(w) ==
    /\ wpc[w] = "insert"
    /\ transactions' = insert_mempool_tx(transactions, TaskTx(w), clock,
                                         get_absolute_fee(TaskTx(w)),
                                         compute_fee_rate(TaskTx(w), get_absolute_fee(TaskTx(w))))
    /\ Continue(w)
    /\ UNCHANGED <<rbf, mempool_tbl, mining_info, migrations, columns, queue>>
    /\ others_unchanged

WorkerStep(w) ==
    \/ Recv(w)
    \/ MiningInfoTask(w)
    \/ MempoolStateTask(w)
    \/ PruneFetch(w)
    \/ PruneDiff(w)
    \/ PruneWrite(w)
    \/ CoinbaseTx(w)
    \/ Resolve(w)
    \/ MinedExists(w)
    \/ MinedUpdate(w)
    \/ TxExists(w)
    \/ RecordRbf(w)
    \/ UpdateTxid(w)
    \/ CpfpCheck(w)
    \/ CpfpUpdate(w)
    \/ InsertTx(w)

----------------------------------------------------------------------------
(* The process: main.rs main, app.rs App::init and App::run *)

\* an init that migrates before it asks the node
InitOrderMigrateFirst ==
    <<"init_migrate", "init_ibd", "init_loaded", "init_stale", "init_bootstrap", "init_spawn">>

\* an init that deletes the stale rows after its bootstrap
InitOrderBootstrapFirst ==
    <<"init_ibd", "init_loaded", "init_migrate", "init_bootstrap", "init_stale", "init_spawn">>

\* the steps of App::init in program order
InitOrder == <<"init_ibd", "init_loaded", "init_migrate", "init_stale", "init_bootstrap",
               "init_spawn">>

\* the step of App::init after step, and App::run after the last one
NextInit(step) ==
    LET i == CHOOSE j \in DOMAIN InitOrder : InitOrder[j] = step
    IN  IF i = Len(InitOrder) THEN "run_spawn" ELSE InitOrder[i + 1]

\* the positions at which main has returned: init or run gave an error, or run gave Ok
Returned == {"init_refused", "init_failed", "task_failed", "send_failed", "exit_ok"}

\* the positions of a worker at which it is suspended in an await or has returned
Suspended == {"idle", "recv", "mining_info", "mempool_state", "prune_fetch", "prune_diff",
              "resolve", "failed", "stopped"}

app_unchanged == UNCHANGED <<node_vars, zmq, clock, budget, queue, closed, worker_vars>>

\* the node finishes its initial block download and loads its mempool
NodeSynced ==
    /\ node_ibd \/ ~node_loaded
    /\ node_ibd' = FALSE
    /\ node_loaded' = TRUE
    /\ UNCHANGED <<store_vars, node_mempool, node_confirmed, node_height, zmq, clock, budget,
                   queue, closed, worker_vars, app_vars>>

\* main starts: Database::new opens the file, App::new makes the queue.  A start
\* after the first is an event of the behaviour
Start ==
    /\ app = "down"
    /\ IF started THEN budget > 0 /\ budget' = budget - 1 ELSE UNCHANGED budget
    /\ started' = TRUE
    /\ boot' = Store
    /\ app' = InitOrder[1]
    /\ UNCHANGED <<store_vars, node_vars, zmq, clock, queue, closed, worker_vars, srcs,
                   shutdown_sent, flushed, cfg, blist, call>>

\* init: get_blockchain_info and the check of initial_block_download
InitIbd ==
    /\ app = "init_ibd"
    /\ app' = IF node_ibd THEN "init_refused" ELSE NextInit("init_ibd")
    /\ UNCHANGED <<store_vars, srcs, shutdown_sent, flushed, started, boot, cfg, blist, call>>
    /\ app_unchanged

\* init: get_mempool_info and the check of loaded
InitLoaded ==
    /\ app = "init_loaded"
    /\ app' = IF ~node_loaded THEN "init_refused" ELSE NextInit("init_loaded")
    /\ UNCHANGED <<store_vars, srcs, shutdown_sent, flushed, started, boot, cfg, blist, call>>
    /\ app_unchanged

\* init: run_migrations
InitMigrate ==
    /\ app = "init_migrate"
    /\ LET db == run_migrations(1, [columns |-> columns, migrations |-> migrations, ok |-> TRUE])
       IN  /\ columns' = db.columns
           /\ migrations' = db.migrations
           /\ app' = IF db.ok THEN NextInit("init_migrate") ELSE "init_failed"
    /\ UNCHANGED <<transactions, rbf, mempool_tbl, mining_info, srcs, shutdown_sent, flushed,
                   started, boot, cfg, blist, call>>
    /\ app_unchanged

\* init: remove_stale_txs
InitStale ==
    /\ app = "init_stale"
    /\ transactions' = remove_stale_txs(transactions)
    /\ app' = NextInit("init_stale")
    /\ UNCHANGED <<rbf, mempool_tbl, mining_info, migrations, columns, srcs, shutdown_sent,
                   flushed, started, boot, cfg, blist, call>>
    /\ app_unchanged

\* extract_existing_mempool: get_raw_mempool_verbose
InitBootstrap ==
    /\ app = "init_bootstrap"
    /\ blist' = node_mempool
    /\ app' = "bootstrap_loop"
    /\ UNCHANGED <<store_vars, srcs, shutdown_sent, flushed, started, boot, cfg, call>>
    /\ app_unchanged

\* extract_existing_mempool: one entry of the map, in the map's order.  An entry whose
\* transaction the node no longer returns is logged and skipped; an error of the fee
\* resolver or of insert_mempool_tx is returned by init
BootstrapEntry(t) ==
    /\ app = "bootstrap_loop"
    /\ t \in blist
    /\ blist' = blist \ {t}
    /\ LET tx == Transaction(t)
           parent == tx.input[1].previous_output.txid
       IN  \/ /\ t \notin Known
              /\ UNCHANGED <<app, transactions>>
           \/ /\ t \in Known
              /\ app' = "init_failed"
              /\ UNCHANGED transactions
           \/ /\ t \in Known
              /\ PrevoutsKnown(tx)
              /\ IF LiveParentExists(transactions, parent) /\ ~(CpfpUpdateColumns \subseteq columns)
                 THEN /\ app' = "init_failed"
                      /\ UNCHANGED transactions
                 ELSE /\ transactions' =
                            insert_mempool_tx(
                                IF LiveParentExists(transactions, parent)
                                THEN MarkCpfpParent(transactions, compute_txid(tx), parent)
                                ELSE transactions,
                                tx, clock, get_absolute_fee(tx),
                                compute_fee_rate(tx, get_absolute_fee(tx)))
                      /\ UNCHANGED app
    /\ UNCHANGED <<rbf, mempool_tbl, mining_info, migrations, columns, srcs, shutdown_sent,
                   flushed, started, boot, cfg, call>>
    /\ app_unchanged

\* extract_existing_mempool: the loop is over
BootstrapDone ==
    /\ app = "bootstrap_loop"
    /\ blist = {}
    /\ app' = NextInit("init_bootstrap")
    /\ UNCHANGED <<store_vars, srcs, shutdown_sent, flushed, started, boot, cfg, blist, call>>
    /\ app_unchanged

\* init: the workers are spawned, their handles dropped
InitSpawn ==
    /\ app = "init_spawn"
    /\ wpc' = [w \in Workers |-> "recv"]
    /\ app' = NextInit("init_spawn")
    /\ UNCHANGED <<store_vars, node_vars, zmq, clock, budget, queue, closed, wtask, wstatus,
                   wexists, wlist, srcs, shutdown_sent, flushed, started, boot, cfg, blist, call>>

\* a run that spawns the four sources whatever the command line says
RunSpawnAll ==
    /\ app = "run_spawn"
    /\ srcs' = [s \in Sources |-> "select"]
    /\ zmq' = <<>>
    /\ app' = "select"
    /\ UNCHANGED <<store_vars, node_vars, clock, budget, queue, closed, worker_vars,
                   shutdown_sent, flushed, started, boot, cfg, blist, call>>

\* run: the sources are spawned and the subscriber connects; what the node
\* published before is not delivered
RunSpawn ==
    /\ app = "run_spawn"
    /\ srcs' = [s \in Sources |->
                   IF (s = "prune" /\ ~cfg.prune) \/ (s = "mining" /\ ~cfg.mining)
                   THEN "off" ELSE "select"]
    /\ zmq' = <<>>
    /\ app' = "select"
    /\ UNCHANGED <<store_vars, node_vars, clock, budget, queue, closed, worker_vars,
                   shutdown_sent, flushed, started, boot, cfg, blist, call>>

\* run, the select!: ctrl_c completes and the shutdown is broadcast; send gives an
\* error, which run returns, when no receiver is left
CtrlC ==
    /\ app = "select"
    /\ IF \E s \in Sources : srcs[s] \in {"select", "send"}
       THEN /\ shutdown_sent' = TRUE
            /\ app' = "await_mining"
       ELSE /\ app' = "send_failed"
            /\ UNCHANGED shutdown_sent
    /\ UNCHANGED <<store_vars, srcs, flushed, started, boot, cfg, blist, call>>
    /\ app_unchanged

\* run, the select!: the handle of a source completes; run returns its error
HandleDone(s) ==
    /\ app = "select"
    /\ srcs[s] \in {"ok", "err"}
    /\ app' = IF srcs[s] = "err" THEN "task_failed" ELSE "await_mining"
    /\ UNCHANGED <<store_vars, srcs, shutdown_sent, flushed, started, boot, cfg, blist, call>>
    /\ app_unchanged

\* run: the mining info handle, when there is one, is awaited
AwaitMining ==
    /\ app = "await_mining"
    /\ srcs["mining"] \in {"off", "ok", "err"}
    /\ app' = IF srcs["mining"] = "err" THEN "task_failed" ELSE "close"
    /\ UNCHANGED <<store_vars, srcs, shutdown_sent, flushed, started, boot, cfg, blist, call>>
    /\ app_unchanged

\* run: tasks_tx.close()
CloseQueue ==
    /\ app = "close"
    /\ closed' = TRUE
    /\ app' = "flush"
    /\ UNCHANGED <<store_vars, node_vars, zmq, clock, budget, queue, worker_vars, srcs,
                   shutdown_sent, flushed, started, boot, cfg, blist, call>>

\* run: db.flush(), and run returns Ok
Flush ==
    /\ app = "flush"
    /\ flushed' = TRUE
    /\ app' = "exit_ok"
    /\ UNCHANGED <<store_vars, srcs, shutdown_sent, started, boot, cfg, blist, call>>
    /\ app_unchanged

\* main returns and the runtime is dropped: every task ends at the await where it is
\* suspended, once the workers inside a Store call have left it
Exit ==
    /\ app \in Returned
    /\ \A w \in Workers : wpc[w] \in Suspended
    /\ app' = "down"
    /\ wpc' = [w \in Workers |-> "idle"]
    /\ wtask' = [w \in Workers |-> ""]
    /\ wstatus' = [w \in Workers |-> "none"]
    /\ wexists' = [w \in Workers |-> FALSE]
    /\ wlist' = [w \in Workers |-> {}]
    /\ srcs' = [s \in Sources |-> "off"]
    /\ queue' = <<>>
    /\ zmq' = <<>>
    /\ closed' = FALSE
    /\ shutdown_sent' = FALSE
    /\ flushed' = FALSE
    /\ blist' = {}
    /\ UNCHANGED <<store_vars, node_vars, clock, budget, started, boot, cfg, call>>

\* a source in its select!: shutdown.recv() completes, by the broadcast or because
\* run has returned and dropped the sender
SourceShutdown(s) ==
    /\ srcs[s] = "select"
    /\ shutdown_sent \/ app \in Returned
    /\ srcs' = [srcs EXCEPT ![s] = "ok"]
    /\ UNCHANGED <<store_vars, app, shutdown_sent, flushed, started, boot, cfg, blist, call>>
    /\ app_unchanged

\* the stream of the subscriber gives an error, which the source returns
ZmqError ==
    /\ srcs["zmq"] = "select"
    /\ srcs' = [srcs EXCEPT !["zmq"] = "err"]
    /\ UNCHANGED <<store_vars, app, shutdown_sent, flushed, started, boot, cfg, blist, call>>
    /\ app_unchanged

\* the stream of the subscriber ends, and the source returns Ok
ZmqEnd ==
    /\ srcs["zmq"] = "select"
    /\ srcs' = [srcs EXCEPT !["zmq"] = "ok"]
    /\ UNCHANGED <<store_vars, app, shutdown_sent, flushed, started, boot, cfg, blist, call>>
    /\ app_unchanged

AppStep ==
    \/ Start
    \/ InitIbd
    \/ InitLoaded
    \/ InitMigrate
    \/ InitStale
    \/ InitBootstrap
    \/ \E t \in MempoolTxs : BootstrapEntry(t)
    \/ BootstrapDone
    \/ InitSpawn
    \/ RunSpawn
    \/ CtrlC
    \/ \E s \in Sources \ {"mining"} : HandleDone(s)
    \/ AwaitMining
    \/ CloseQueue
    \/ Flush
    \/ Exit

SourceEnd ==
    \/ \E s \in Sources : SourceShutdown(s)
    \/ ZmqError
    \/ ZmqEnd

----------------------------------------------------------------------------
(* The pipeline once App::init and the spawns of App::run are done.  It    *)
(* starts in a state init leaves on a new file: the rows its bootstrap has *)
(* inserted for the node's mempool, which is empty, holds A, or holds A    *)
(* and its child C (inserted child first: the other order fails init).     *)

\* the rows extract_existing_mempool inserts for the entries in the sequence order
RECURSIVE Bootstrapped(_, _, _)
Bootstrapped(T, order, now) ==
    IF order = <<>> THEN T
    ELSE Bootstrapped(
             insert_mempool_tx(T, Transaction(Head(order)), now,
                               get_absolute_fee(Transaction(Head(order))),
                               compute_fee_rate(Transaction(Head(order)),
                                                get_absolute_fee(Transaction(Head(order))))),
             Tail(order), now)

\* the mempool entries at the start, in the order the bootstrap takes them
Mempools == {<<>>, <<"A">>, <<"C", "A">>}

Init ==
    /\ \E order \in Mempools :
          /\ node_mempool = {order[i] : i \in DOMAIN order}
          /\ clock = Len(order) + 1
          /\ transactions = Bootstrapped({}, order, Len(order) + 1)
    /\ rbf = {}
    /\ mempool_tbl = <<>>
    /\ mining_info = <<>>
    /\ migrations = Migrated.migrations
    /\ columns = Migrated.columns
    /\ node_confirmed = {}
    /\ node_height = 1
    /\ node_ibd = FALSE
    /\ node_loaded = TRUE
    /\ zmq = <<>>
    /\ budget = MaxEvents
    /\ queue = <<>>
    /\ closed = FALSE
    /\ wpc = [w \in Workers |-> "recv"]
    /\ NoWorkerState
    /\ app = "select"
    /\ srcs = [s \in Sources |-> "select"]
    /\ shutdown_sent = FALSE
    /\ flushed = FALSE
    /\ started = TRUE
    /\ boot = [Store EXCEPT !.transactions = {}]
    /\ cfg = [prune |-> TRUE, mining |-> TRUE]
    /\ blist = {}
    /\ call = NoCall

Next ==
    \/ NodeEvent
    \/ SourceStep
    \/ \E w \in Workers : WorkerStep(w)

Spec == Init /\ [][Next]_vars

----------------------------------------------------------------------------
(* Properties of the pipeline, checked under Spec *)

\* the inputs hash of the task worker w handles
TaskHash(w) == get_inputs_hash(TaskTx(w).input)

\* worker w takes a step from position pc
Leaves(w, pc) == wpc[w] = pc /\ wpc'[w] # pc

\* C1: no transaction row has both mined_at and pruned_at set.
\* record_mined_tx and record_pruned_txs do not look at the other column: a row a
\* PruneCheck marks after the block took it out of the node's mempool is marked mined
\* by the RawTx of the block.
C1_MinedXorPruned ==
    \A r \in transactions : r.mined_at = NULL \/ r.pruned_at = NULL

\* C2: no worker ever terminates because handling a task failed.
\* run returns the error of a payload that does not decode, of a failed MempoolState
\* or MiningInfo request, and of a failed Store call.
C2_NoWorkerTerminates ==
    \A w \in Workers : wpc[w] # "failed"

\* C3: every step a worker takes for a RawTx is the one of its class: a coinbase goes to
\* record_coinbase_tx only; a failed status or fee resolution drops the task without a
\* Store write; a confirmed transaction goes to record_mined_tx alone; one that is not
\* confirmed goes to record_rbf and then update_txid_by_inputs_hash when tx_exists is
\* true, and to insert_mempool_tx alone when it is false.
C3_OneClassification ==
    [][\A w \in Workers :
        LET tx == TaskTx(w)
            to == wpc'[w]
        IN  /\ Leaves(w, "coinbase") =>
                /\ is_coinbase(tx)
                /\ transactions' = record_coinbase_tx(transactions, tx, clock, clock')
                /\ rbf' = rbf
                /\ to = "recv"
            /\ Leaves(w, "resolve") =>
                /\ ~is_coinbase(tx)
                /\ UNCHANGED store_vars
                /\ \/ to = "recv"
                   \/ to = "mined_exists" /\ wtask[w] \in node_confirmed
                   \/ to = "tx_exists" /\ wtask[w] \notin node_confirmed
            /\ Leaves(w, "mined_exists") =>
                /\ wstatus[w] = "mined"
                /\ UNCHANGED store_vars
                /\ to = "mined_update"
            /\ Leaves(w, "mined_update") =>
                /\ wstatus[w] = "mined"
                /\ transactions' = record_mined_tx(transactions, tx, wexists[w], clock)
                /\ rbf' = rbf
                /\ to = "recv"
            /\ Leaves(w, "tx_exists") =>
                /\ wstatus[w] = "unmined"
                /\ UNCHANGED store_vars
                /\ to = IF tx_exists(transactions, tx) THEN "record_rbf" ELSE "cpfp_check"
            /\ Leaves(w, "record_rbf") =>
                /\ wstatus[w] = "unmined" /\ wexists[w]
                /\ rbf' = record_rbf(rbf, transactions, tx, get_absolute_fee(tx), clock, w)
                /\ transactions' = transactions
                /\ to = "update_txid"
            /\ Leaves(w, "update_txid") =>
                /\ wstatus[w] = "unmined" /\ wexists[w]
                /\ transactions' = update_txid_by_inputs_hash(transactions, tx)
                /\ rbf' = rbf
                /\ to = "recv"
            /\ (Leaves(w, "cpfp_check") \/ Leaves(w, "cpfp_update")) =>
                /\ wstatus[w] = "unmined" /\ ~wexists[w]
                /\ rbf' = rbf
                /\ to \in {"cpfp_update", "insert", "failed"}
            /\ Leaves(w, "insert") =>
                /\ wstatus[w] = "unmined" /\ ~wexists[w]
                /\ transactions' =
                       insert_mempool_tx(transactions, tx, clock, get_absolute_fee(tx),
                                         compute_fee_rate(tx, get_absolute_fee(tx)))
                /\ rbf' = rbf
                /\ to = "recv"]_vars

\* C3: the store after a replacement, a block and its coinbase have been handled
C3_Witness ==
    /\ rbf # {}
    /\ \E r \in transactions : r.version = COINBASE_TRANSACTION_VERSION
    /\ \E r \in transactions :
          r.version = MEMPOOL_TRANSACTION_VERSION /\ r.mined_at # NULL /\ r.tx_id = "b"

\* C8 as stated: when a worker ends the handling of B, not mined, for which tx_exists
\* was true, the table holds one row of that inputs_hash, with tx_id = txid(B), the rbf
\* table holds a row of that inputs_hash with replaces = txid(B), and neither step has
\* changed the number of transaction rows.
C8_AsStated ==
    [][\A w \in Workers :
        /\ Leaves(w, "record_rbf") => Cardinality(transactions') = Cardinality(transactions)
        /\ Leaves(w, "update_txid") =>
            /\ Cardinality(transactions') = Cardinality(transactions)
            /\ Cardinality(WithHash(transactions', TaskHash(w))) = 1
            /\ \A r \in WithHash(transactions', TaskHash(w)) : r.tx_id = compute_txid(TaskTx(w))
            /\ \E x \in WithHash(rbf', TaskHash(w)) : x.replaces = compute_txid(TaskTx(w))]_vars

\* C8, amended: as stated, but the rbf row holds replaces = txid(B) only while it is the
\* row this worker wrote; a worker that handles another transaction of the same
\* inputs_hash at the same time may have written the row after it.
C8_LastWriterWins ==
    [][\A w \in Workers :
        /\ Leaves(w, "record_rbf") => Cardinality(transactions') = Cardinality(transactions)
        /\ Leaves(w, "update_txid") =>
            /\ Cardinality(transactions') = Cardinality(transactions)
            /\ Cardinality(WithHash(transactions', TaskHash(w))) = 1
            /\ \A r \in WithHash(transactions', TaskHash(w)) : r.tx_id = compute_txid(TaskTx(w))
            /\ Cardinality(WithHash(rbf', TaskHash(w))) = 1
            /\ \A x \in WithHash(rbf', TaskHash(w)) :
                  x.by = w => x.replaces = compute_txid(TaskTx(w))]_vars

\* C8: B has replaced A: the row A's RawTx inserted carries the txid of B, and the rbf
\* row of its inputs_hash names B
C8_Witness ==
    \E r \in transactions :
        /\ r.tx_id = "b"
        /\ r.tx_data = consensus_encode(Transaction("A"))
        /\ \E x \in WithHash(rbf, r.inputs_hash) : x.replaces = "b"

C10_OneRbfRowPerHash ==
    /\ \A x, y \in rbf : x.inputs_hash = y.inputs_hash => x = y
    /\ Cardinality(rbf) = Cardinality({x.inputs_hash : x \in rbf})
    /\ \A x \in rbf : \A w \in Workers :
          (wpc[w] = "update_txid" /\ TaskHash(w) = x.inputs_hash /\ x.by = w)
              => x.replaces = compute_txid(TaskTx(w))

\* C10: an inputs_hash replaced twice has one rbf row
C10_Witness ==
    \E x \in rbf : x.rounds >= 2 /\ Cardinality(WithHash(rbf, x.inputs_hash)) = 1

\* C16: the UPDATE of insert_mempool_tx for an input of the transaction c gives every
\* row that is live and has the tx_id of the input's previous output child_txid =
\* txid(c) and the mark is_cpfp_parent, leaves a row that is mined or pruned as it is,
\* and the INSERT of c's own row comes after it.
\* The table has no column is_cpfp_parent: the UPDATE is an error, which run returns.
C16_CpfpParentMarked ==
    [][\A w \in Workers :
        Leaves(w, "cpfp_update") =>
            /\ wpc'[w] = "insert"
            /\ \A r \in transactions :
                  r.tx_id = ParentTxid(w) =>
                      IF Live(r)
                      THEN /\ [r EXCEPT !.child_txid = compute_txid(TaskTx(w))] \in transactions'
                           /\ is_cpfp_parent(transactions', columns, r.tx_id) =
                                  [ret |-> "Ok", value |-> TRUE]
                      ELSE r \in transactions']_vars

\* C18: a row has the mark is_cpfp_parent exactly when it has been given a child_txid,
\* and a row that has the mark keeps it.
\* No statement creates the column: the mark of no row can be read, nor written.
C18_MarkIffChildSet ==
    /\ [](\A r \in transactions :
            is_cpfp_parent(transactions, columns, r.tx_id) =
                [ret |-> "Ok", value |-> r.child_txid # NULLTEXT])
    /\ [][\A r \in transactions :
            is_cpfp_parent(transactions, columns, r.tx_id) = [ret |-> "Ok", value |-> TRUE] =>
                \A q \in WithHash(transactions', r.inputs_hash) :
                    is_cpfp_parent(transactions', columns', q.tx_id) =
                        [ret |-> "Ok", value |-> TRUE]]_vars

\* C20: the write of a PruneCheck changes only rows that are live when it writes, and
\* whose tx_id its list of the live tx_ids absent from the node's mempool holds; a row
\* it changes has pruned_at set and mined_at NULL afterwards, and is otherwise the same.
\* record_pruned_txs is UPDATE ... WHERE tx_id IN (...): a row another worker has
\* marked mined since the list was computed is marked pruned as well.
C20_PruneMarksLiveOnly ==
    [][\A w \in Workers :
        Leaves(w, "prune_write") =>
            \A r \in transactions :
                r \notin transactions' =>
                    /\ r.mined_at = NULL /\ r.pruned_at = NULL
                    /\ r.tx_id \in wlist[w]
                    /\ \E q \in transactions' :
                          /\ q = [r EXCEPT !.pruned_at = q.pruned_at]
                          /\ q.pruned_at # NULL
                          /\ q.mined_at = NULL]_vars

\* C27: a MempoolState task that is handled with success adds one row to the table
\* mempool, holding what the node reports (the bytes and the count of its mempool, the
\* height and the hash of its tip), after the rows the table holds; and no other step
\* of the pipeline changes the table: every row stays, as it is and where it is.
C27_SnapshotsAppendOnly ==
    [][/\ Len(mempool_tbl') >= Len(mempool_tbl)
       /\ SubSeq(mempool_tbl', 1, Len(mempool_tbl)) = mempool_tbl
       /\ \A w \in Workers :
             (Leaves(w, "mempool_state") /\ wpc'[w] = "recv") =>
                 /\ Len(mempool_tbl') = Len(mempool_tbl) + 1
                 /\ LET row == mempool_tbl'[Len(mempool_tbl')]
                    IN  /\ row.size = Cardinality(node_mempool)
                        /\ row.tx_count = Cardinality(node_mempool)
                        /\ row.block_height = node_height
                        /\ row.block_hash = node_height
                        /\ row.created_at = clock
       /\ (\A w \in Workers : ~(Leaves(w, "mempool_state") /\ wpc'[w] = "recv")) =>
             mempool_tbl' = mempool_tbl]_vars

\* C27: two MempoolState tasks have been handled at the same tip, and the table holds
\* the row of each
C27_Witness ==
    /\ Len(mempool_tbl) = 2
    /\ mempool_tbl[1].block_height = mempool_tbl[2].block_height
    /\ mempool_tbl[1].block_hash = mempool_tbl[2].block_hash
    /\ \A w \in Workers : wpc[w] = "recv"

\* the transactions row insert_mempool_tx writes for t: its txid and its encoding
InsertedFor(r, t) ==
    /\ r.tx_id = compute_txid(Transaction(t))
    /\ r.tx_data = consensus_encode(Transaction(t))

\* C32: the write of a PruneCheck marks no row that a worker has inserted for a
\* transaction the node's mempool holds: neither one the node held when the list was
\* fetched, nor one that came, and was inserted, after the fetch.
\* The list is fetched, the difference computed and the rows marked in three steps,
\* and a row inserted between the first and the second is in the difference.
C32_PruneSparesLaterInsert ==
    [][\A w \in Workers :
        Leaves(w, "prune_write") =>
            \A r \in transactions :
                (r \notin transactions' /\ r.pruned_at = NULL) =>
                    \A t \in node_mempool : ~InsertedFor(r, t)]_vars

\* C33: when a worker's INSERT for a transaction that is not mined is done, one row
\* holds its inputs_hash; and when the INSERT found there the row of another transaction
\* of that inputs_hash, which a worker wrote since this one's tx_exists found none, the
\* rbf table holds the replacement.
\* tx_exists and the INSERT OR REPLACE are two statements: both workers find no row,
\* both insert, the later INSERT replaces the row of the earlier, and record_rbf is
\* called by neither.
C33_ExistsAndWriteAtomic ==
    [][\A w \in Workers :
        Leaves(w, "insert") =>
            /\ Cardinality(WithHash(transactions', TaskHash(w))) = 1
            /\ (\E r \in WithHash(transactions, TaskHash(w)) : r.tx_id # compute_txid(TaskTx(w))) =>
                   \E x \in WithHash(rbf', TaskHash(w)) : x.replaces = compute_txid(TaskTx(w))]_vars

\* C34: every row of transactions describes one transaction: its tx_id is the txid of
\* the transaction its tx_data encodes, and its absolute_fee and fee_rate are the fee and
\* the fee rate of that transaction.
\* update_txid_by_inputs_hash sets tx_id alone: after a replacement the row has the
\* txid of B with the tx_data, the fee and the fee rate of A.
C34_RowDescribesOneTransaction ==
    \A r \in transactions :
        /\ r.tx_id = compute_txid(Transaction(r.tx_data.id))
        /\ r.absolute_fee = get_absolute_fee(Transaction(r.tx_data.id))
        /\ r.fee_rate = compute_fee_rate(Transaction(r.tx_data.id),
                                         get_absolute_fee(Transaction(r.tx_data.id)))

----------------------------------------------------------------------------
(* The pipeline of a process started on a new file while the node's mempool *)
(* was empty, at the moment the node has accepted and published its first   *)
(* transaction, A, which the subscriber has not yet received.               *)

InitPrune ==
    /\ node_mempool = {"A"}
    /\ zmq = <<"A">>
    /\ clock = 2
    /\ transactions = {}
    /\ rbf = {}
    /\ mempool_tbl = <<>>
    /\ mining_info = <<>>
    /\ migrations = Migrated.migrations
    /\ columns = Migrated.columns
    /\ node_confirmed = {}
    /\ node_height = 1
    /\ node_ibd = FALSE
    /\ node_loaded = TRUE
    /\ budget = MaxEvents
    /\ queue = <<>>
    /\ closed = FALSE
    /\ wpc = [w \in Workers |-> "recv"]
    /\ NoWorkerState
    /\ app = "select"
    /\ srcs = [s \in Sources |-> "select"]
    /\ shutdown_sent = FALSE
    /\ flushed = FALSE
    /\ started = TRUE
    /\ boot = [Store EXCEPT !.transactions = {}]
    /\ cfg = [prune |-> TRUE, mining |-> TRUE]
    /\ blist = {}
    /\ call = NoCall

SpecPrune == InitPrune /\ [][Next]_vars

----------------------------------------------------------------------------
(* The process from a start, on a new file or on a file an earlier        *)
(* process left, with the prune check and the mining info both on or both  *)
(* off, and a node in any state of readiness.                              *)

\* what an earlier process left: the row its bootstrap inserted for A, and the row of
\* the coinbase of the block mined since; with the node that goes with them
Left ==
    [transactions |->
        record_coinbase_tx(Bootstrapped({}, <<"A">>, 2), Transaction("K"), 3, 3),
     migrations |-> Migrated.migrations, columns |-> Migrated.columns,
     node_mempool |-> {"A"}, node_confirmed |-> {"K"}, node_height |-> 2, clock |-> 3]

\* what another left: the rows its bootstrap inserted for A and its child C, the row
\* of C marked pruned after the node dropped C, and the row of the coinbase
LeftPruned ==
    [transactions |->
        record_coinbase_tx(
            record_pruned_txs(Bootstrapped({}, <<"C", "A">>, 3), {"c"}, 4),
            Transaction("K"), 5, 5),
     migrations |-> Migrated.migrations, columns |-> Migrated.columns,
     node_mempool |-> {"A"}, node_confirmed |-> {"K"}, node_height |-> 2, clock |-> 5]

\* a file Database::new has just created, and a node with an empty mempool
Fresh ==
    [transactions |-> {}, migrations |-> {}, columns |-> CreatedColumns,
     node_mempool |-> {}, node_confirmed |-> {}, node_height |-> 1, clock |-> 1]

InitApp ==
    /\ \E seed \in {Fresh, Left, LeftPruned} :
          /\ transactions = seed.transactions
          /\ migrations = seed.migrations
          /\ columns = seed.columns
          /\ node_mempool = seed.node_mempool
          /\ node_confirmed = seed.node_confirmed
          /\ node_height = seed.node_height
          /\ clock = seed.clock
    /\ rbf = {}
    /\ mempool_tbl = <<>>
    /\ mining_info = <<>>
    /\ node_ibd \in BOOLEAN
    /\ node_loaded \in BOOLEAN
    /\ zmq = <<>>
    /\ budget = MaxAppEvents
    /\ queue = <<>>
    /\ closed = FALSE
    /\ wpc = [w \in Workers |-> "idle"]
    /\ NoWorkerState
    /\ app = "down"
    /\ srcs = [s \in Sources |-> "off"]
    /\ shutdown_sent = FALSE
    /\ flushed = FALSE
    /\ started = FALSE
    /\ boot = Store
    /\ cfg \in {[prune |-> TRUE, mining |-> TRUE], [prune |-> FALSE, mining |-> FALSE]}
    /\ blist = {}
    /\ call = NoCall

NextApp ==
    \/ NodeEvent
    \/ NodeSynced
    \/ AppStep
    \/ SourceStep
    \/ SourceEnd
    \/ \E w \in Workers : WorkerStep(w) \/ RecvClosed(w)

SpecApp == InitApp /\ [][NextApp]_vars

----------------------------------------------------------------------------
(* Properties of the process, checked under SpecApp *)

\* C4: after an interrupt the shutdown goes in order: when the queue is closed every
\* source has stopped, when the Store is flushed the queue is closed and empty and
\* every worker has terminated, and run returns Ok only after the flush.
\* run awaits no worker and, of the sources, only the mining info ticker.
C4_ShutdownInOrder ==
    /\ (shutdown_sent /\ closed) => \A s \in Sources : srcs[s] \notin {"select", "send"}
    /\ (shutdown_sent /\ flushed) =>
          closed /\ queue = <<>> /\ \A w \in Workers : wpc[w] = "stopped"
    /\ (shutdown_sent /\ app = "exit_ok") => flushed

\* C5: when run has returned the error of a source task, the shutdown has been
\* broadcast, the queue closed and the Store flushed.
\* The ? of the select! arm returns the error at once.
C5_SourceErrorShutsDown ==
    app = "task_failed" => shutdown_sent /\ closed /\ flushed

\* C6: init returns an error when the node is in initial block download or its mempool
\* is not loaded, and then the file is as the process found it (no migration, no
\* deletion, no bootstrap insert), no worker runs and no source has been started.
C6_RefusedInitDoesNothing ==
    /\ [](app = "init_refused" =>
            /\ Store = boot
            /\ \A w \in Workers : wpc[w] = "idle"
            /\ \A s \in Sources : srcs[s] = "off"
            /\ queue = <<>>)
    /\ [][/\ (app = "init_ibd" /\ app' # app /\ node_ibd) => app' = "init_refused"
          /\ (app = "init_loaded" /\ app' # app /\ ~node_loaded) => app' = "init_refused"
          /\ (app' = "init_refused" /\ app' # app) =>
                (node_ibd \/ ~node_loaded) /\ app \in {"init_ibd", "init_loaded"}
         ]_vars

\* C6: init has refused to start on a file that holds rows
C6_Witness ==
    /\ app = "init_refused"
    /\ node_ibd \/ ~node_loaded
    /\ \E r \in transactions : Live(r)
    /\ "rbf.replaces" \in columns

\* C7: the remove_stale_txs of init deletes the rows with mined_at and pruned_at both
\* NULL, keeps every other row as it is, and changes no other table, nor the ledger,
\* nor the schema.
C7_RemoveStaleFrame ==
    [][(app = "init_stale" /\ app' # "init_stale") =>
          /\ transactions' \subseteq transactions
          /\ \A r \in transactions : r \in transactions' <=> (r.mined_at # NULL \/ r.pruned_at # NULL)
          /\ UNCHANGED <<rbf, mempool_tbl, mining_info, migrations, columns>>]_vars

\* C7: a start on a file with a live, a pruned and a mined row has deleted the live row
\* and kept the other two
C7_Witness ==
    /\ app = "init_bootstrap"
    /\ \E r \in boot.transactions : Live(r)
    /\ \E r \in boot.transactions : r.mined_at # NULL
    /\ \E r \in boot.transactions : r.pruned_at # NULL
    /\ transactions = {r \in boot.transactions : ~Live(r)}
    /\ transactions # boot.transactions

\* the positions of main inside App::init
InInit == {InitOrder[j] : j \in DOMAIN InitOrder} \cup {"bootstrap_loop"}

\* C28: init calls remove_stale_txs once, after run_migrations and before the first
\* insert of its bootstrap; it spawns the workers after the bootstrap, and run spawns the
\* sources after that.  While init runs, only remove_stale_txs and the inserts of the
\* bootstrap change the table transactions, and no live row is left when the bootstrap
\* begins: so every live row the table holds when init has returned Ok was inserted by
\* the bootstrap of this process.
C28_InitOrder ==
    /\ [](/\ app \in InInit =>
               /\ \A w \in Workers : wpc[w] = "idle"
               /\ \A s \in Sources : srcs[s] = "off"
               /\ queue = <<>>
          /\ app = "init_stale" =>
               /\ \A j \in DOMAIN MigrationIds : MigrationIds[j] \in migrations
               /\ transactions = boot.transactions
          /\ app = "init_bootstrap" =>
               /\ transactions = remove_stale_txs(boot.transactions)
               /\ \A r \in transactions : ~Live(r)
          /\ app = "run_spawn" =>
               /\ \A w \in Workers : wpc[w] = "recv"
               /\ \A s \in Sources : srcs[s] = "off"
               /\ queue = <<>>)
    /\ [][(app \in InInit \cup {"run_spawn"} /\ transactions' # transactions) =>
             \/ /\ app = "init_stale"
                /\ app' = "init_bootstrap"
                /\ transactions' = remove_stale_txs(transactions)
             \/ /\ app = "bootstrap_loop"
                /\ \A r \in transactions' \ transactions : Live(r)]_vars

\* C28: init has returned Ok on a file that held a live row: the workers are spawned,
\* the sources are not, and the table holds a live row of the bootstrap and the rows
\* that were not live
C28_Witness ==
    /\ app = "run_spawn"
    /\ \E r \in boot.transactions : Live(r)
    /\ \E r \in boot.transactions : ~Live(r)
    /\ \E r \in transactions : Live(r)
    /\ \A r \in boot.transactions : ~Live(r) => r \in transactions
    /\ \A w \in Workers : wpc[w] = "recv"
    /\ \A s \in Sources : srcs[s] = "off"

\* C24: the step of the bootstrap for a mempool entry whose transaction cannot be
\* fetched or decoded, or whose fee or fee rate cannot be resolved, leaves init in its
\* loop over the entries: the entry is skipped and init does not return its error.
\* (The entry of a child of a live row, whose insert is the Store error of C16, is left
\* out.)
\* extract_existing_mempool skips the entry only when the fetch fails; the errors of
\* transaction(), get_absolute_fee and compute_fee_rate are returned with ?.
C24_BootstrapSkipsFailedEntry ==
    [][\A t \in MempoolTxs :
          (/\ app = "bootstrap_loop"
           /\ t \in blist
           /\ t \notin blist'
           /\ ~LiveParentExists(transactions, Transaction(t).input[1].previous_output.txid)) =>
              /\ app' = "bootstrap_loop"
              /\ \/ transactions' = transactions
                 \/ transactions' =
                        insert_mempool_tx(transactions, Transaction(t), clock,
                                          get_absolute_fee(Transaction(t)),
                                          compute_fee_rate(Transaction(t),
                                                           get_absolute_fee(Transaction(t))))]_vars

\* C36: a row that has mined_at set keeps its place in the table (the row of its
\* inputs_hash) with mined_at set, and a row that has pruned_at set keeps it with
\* pruned_at set, whatever step the process takes, a restart included.
\* The bootstrap's INSERT OR REPLACE writes a new row over the row of the same
\* inputs_hash, with mined_at and pruned_at NULL.
C36_MinedAndPrunedArePermanent ==
    [][\A r \in transactions :
          /\ r.mined_at # NULL =>
                \E q \in WithHash(transactions', r.inputs_hash) : q.mined_at # NULL
          /\ r.pruned_at # NULL =>
                \E q \in WithHash(transactions', r.inputs_hash) : q.pruned_at # NULL]_vars

\* C31: the queue never holds more than QueueCap tasks; it changes only by a task
\* appended at its end, when it has room, and by the task at its head taken by a worker;
\* a source suspends in send only on the full queue and leaves send only with its task
\* appended, the subscriber's being the message it took from the stream, in stream order;
\* and on the full queue a worker in recv can take a task.
\* When the queue is closed, or run returns, with a source suspended in send, the send
\* ends without the task.
C31_BoundedQueue ==
    /\ [](/\ Len(queue) <= QueueCap
          /\ (queue # <<>> /\ \E w \in Workers : wpc[w] = "recv") =>
                ENABLED (\E w \in Workers : Recv(w)))
    /\ [][/\ (queue' # queue /\ app' # "down") =>
                \/ /\ Len(queue) < QueueCap
                   /\ \E s \in Sources :
                         /\ srcs[s] \in {"select", "send"}
                         /\ s = "zmq" => (zmq # <<>> /\ zmq' = Tail(zmq))
                         /\ queue' = Append(queue, TaskOf(s))
                \/ /\ queue # <<>>
                   /\ queue' = Tail(queue)
                   /\ \E w \in Workers : Leaves(w, "recv")
          /\ \A s \in Sources :
                /\ (srcs[s] # "send" /\ srcs'[s] = "send") =>
                       Len(queue) = QueueCap /\ queue' = queue /\ zmq' = zmq
                /\ (srcs[s] = "send" /\ srcs'[s] # "send") =>
                       /\ srcs'[s] = "select"
                       /\ s = "zmq" => zmq # <<>>
                       /\ queue' = Append(queue, TaskOf(s))]_vars

----------------------------------------------------------------------------
(* The store alone: a file init has migrated, and the methods of Database   *)
(* called one after the other, each with any of its arguments.  A second    *)
(* passes between two calls.                                                *)

\* the transactions a caller passes: run hands a coinbase to record_coinbase_tx and to
\* no other method, and the node's mempool holds none
CallTxs == MempoolTxs \cup {"K"}

\* the txid lists a caller passes
CallLists == {{}, {"a"}, {"c"}, {"a", "c"}}

\* the Option<u64> a caller passes as found_at: None, or the time of a mempool entry
CallFoundAt == {NULL, 1}

\* what a call leaves alone
call_unchanged ==
    UNCHANGED <<mempool_tbl, mining_info, migrations, columns, node_vars, zmq, queue, closed,
                worker_vars, app, srcs, shutdown_sent, flushed, started, boot, cfg, blist>>

\* a method is called and returns
Called(op, tx, found_at, txids, ret, out) ==
    /\ budget > 0
    /\ budget' = budget - 1
    /\ clock' = clock + 1
    /\ call' = [op |-> op, tx |-> tx, found_at |-> found_at, txids |-> txids, ret |-> ret,
                out |-> out, before |-> [transactions |-> transactions, rbf |-> rbf]]
    /\ call_unchanged

CallInsertMempoolTx(t, found_at) ==
    LET tx == Transaction(t)
        r == InsertMempoolTx(transactions, columns, tx, found_at, clock, get_absolute_fee(tx),
                             compute_fee_rate(tx, get_absolute_fee(tx)))
    IN  /\ transactions' = r.transactions
        /\ UNCHANGED rbf
        /\ Called("insert_mempool_tx", t, found_at, {}, r.ret, {})

CallRecordCoinbaseTx(t) ==
    \E mined_at \in {clock, clock + 1} :
        /\ transactions' = record_coinbase_tx(transactions, Transaction(t), clock, mined_at)
        /\ UNCHANGED rbf
        /\ Called("record_coinbase_tx", t, NULL, {}, "Ok", {})

\* record_mined_tx: the UPDATE names seen_in_mempool
CallRecordMinedTx(t) ==
    LET tx == Transaction(t)
        ok == "transactions.seen_in_mempool" \in columns
    IN  /\ transactions' =
              IF ok THEN record_mined_tx(transactions, tx,
                                         tx_exists(transactions, prune_large_witnesses(tx)), clock)
              ELSE transactions
        /\ UNCHANGED rbf
        /\ Called("record_mined_tx", t, NULL, {}, IF ok THEN "Ok" ELSE "Err", {})

\* record_rbf: the INSERT names replaces
CallRecordRbf(t) ==
    LET tx == Transaction(t)
        ok == ~tx_exists(transactions, tx) \/ "rbf.replaces" \in columns
    IN  /\ rbf' = IF ok THEN record_rbf(rbf, transactions, tx, get_absolute_fee(tx), clock, 0)
                  ELSE rbf
        /\ UNCHANGED transactions
        /\ Called("record_rbf", t, NULL, {}, IF ok THEN "Ok" ELSE "Err", {})

CallUpdateTxid(t) ==
    /\ transactions' = update_txid_by_inputs_hash(transactions, Transaction(t))
    /\ UNCHANGED rbf
    /\ Called("update_txid_by_inputs_hash", t, NULL, {}, "Ok", {})

CallTxidsNotInList(txids) ==
    /\ UNCHANGED <<transactions, rbf>>
    /\ Called("txids_of_txs_not_in_list", "", NULL, txids, "Ok",
              txids_of_txs_not_in_list(transactions, txids))

CallRecordPrunedTxs(txids) ==
    /\ transactions' = record_pruned_txs(transactions, txids, clock)
    /\ UNCHANGED rbf
    /\ Called("record_pruned_txs", "", NULL, txids, "Ok", {})

InitStore ==
    /\ transactions = {}
    /\ rbf = {}
    /\ mempool_tbl = <<>>
    /\ mining_info = <<>>
    /\ migrations = Migrated.migrations
    /\ columns = Migrated.columns
    /\ node_mempool = {}
    /\ node_confirmed = {}
    /\ node_height = 1
    /\ node_ibd = FALSE
    /\ node_loaded = TRUE
    /\ zmq = <<>>
    /\ clock = 2
    /\ budget = MaxCalls
    /\ queue = <<>>
    /\ closed = FALSE
    /\ wpc = [w \in Workers |-> "idle"]
    /\ NoWorkerState
    /\ app = "down"
    /\ srcs = [s \in Sources |-> "off"]
    /\ shutdown_sent = FALSE
    /\ flushed = FALSE
    /\ started = TRUE
    /\ boot = Store
    /\ cfg = [prune |-> TRUE, mining |-> TRUE]
    /\ blist = {}
    /\ call = NoCall

NextStore ==
    \/ \E t \in MempoolTxs, found_at \in CallFoundAt : CallInsertMempoolTx(t, found_at)
    \/ \E t \in CallTxs : CallRecordCoinbaseTx(t)
    \/ \E t \in MempoolTxs : CallRecordMinedTx(t)
    \/ \E t \in MempoolTxs : CallRecordRbf(t)
    \/ \E t \in MempoolTxs : CallUpdateTxid(t)
    \/ \E txids \in CallLists : CallTxidsNotInList(txids)
    \/ \E txids \in CallLists : CallRecordPrunedTxs(txids)

SpecStore == InitStore /\ [][NextStore]_vars

----------------------------------------------------------------------------
(* Properties of the Database methods, checked under SpecStore *)

\* the inputs hash of the transaction of the last call
CallHash == get_inputs_hash(Transaction(call.tx).input)

\* the last call was op, on a transaction
CalledOn(op) == call.op = op /\ call.tx \in CallTxs

\* C11: record_rbf for a transaction whose inputs_hash has no row returns Ok and leaves
\* the table transactions and the table rbf as they were.
C11_RecordRbfUnknownIsNoOp ==
    (CalledOn("record_rbf") /\ WithHash(call.before.transactions, CallHash) = {}) =>
        /\ call.ret = "Ok"
        /\ transactions = call.before.transactions
        /\ rbf = call.before.rbf

\* C11: record_rbf has been called for a transaction on a store that holds rows, and
\* none of its inputs_hash
C11_Witness ==
    /\ CalledOn("record_rbf")
    /\ WithHash(call.before.transactions, CallHash) = {}
    /\ call.before.transactions # {}
    /\ call.ret = "Ok"
    /\ rbf = call.before.rbf

\* C12: record_mined_tx for a transaction whose inputs_hash has no row writes a row for
\* it, with mined_at set and seen_in_mempool false.
\* Its one statement is an UPDATE, which writes nothing where no row is.
C12_MinedUnseenWritesRow ==
    (CalledOn("record_mined_tx") /\ WithHash(call.before.transactions, CallHash) = {}) =>
        \E r \in WithHash(transactions, CallHash) :
            /\ r.tx_id = compute_txid(Transaction(call.tx))
            /\ r.mined_at # NULL
            /\ r.seen_in_mempool = FALSE

\* the rows of T that differ from r in no column but mined_at, tx_data, seen_in_mempool
SameButMined(T, r) ==
    {q \in T : q = [r EXCEPT !.mined_at = q.mined_at, !.tx_data = q.tx_data,
                             !.seen_in_mempool = q.seen_in_mempool]}

\* C13: record_mined_tx for a transaction whose inputs_hash has a row returns Ok and
\* sets the row's mined_at to a time, its seen_in_mempool to true and its tx_data to
\* the encoding of the transaction with the witness of every input empty; the row's
\* other columns and the other rows are as they were.  So a row inserted live and then
\* handled as confirmed has mined_at set.
C13_MinedSeenUpdatesRow ==
    (CalledOn("record_mined_tx") /\ WithHash(call.before.transactions, CallHash) # {}) =>
        /\ call.ret = "Ok"
        /\ Cardinality(transactions) = Cardinality(call.before.transactions)
        /\ \A r \in call.before.transactions :
              IF r.inputs_hash # CallHash THEN r \in transactions
              ELSE \E q \in SameButMined(transactions, r) :
                      /\ q.mined_at # NULL
                      /\ q.seen_in_mempool = TRUE
                      /\ q.tx_data.id = call.tx
                      /\ \A i \in DOMAIN q.tx_data.witness : q.tx_data.witness[i] = ""

\* C13: record_mined_tx has been called for a transaction whose row was live and held
\* its witness; the row is mined and holds the transaction without it
C13_Witness ==
    /\ CalledOn("record_mined_tx")
    /\ \E r \in WithHash(call.before.transactions, CallHash) :
          /\ Live(r)
          /\ r.tx_data = consensus_encode(Transaction(call.tx))
          /\ \E i \in DOMAIN r.tx_data.witness : r.tx_data.witness[i] # ""
    /\ \E q \in WithHash(transactions, CallHash) :
          /\ q.mined_at # NULL
          /\ q.tx_data = consensus_encode(prune_large_witnesses(Transaction(call.tx)))

\* the rows of T for the transaction of txid: those it is the key or the tx_id of
RowsOf(T, txid) == {r \in T : r.inputs_hash = txid \/ r.tx_id = txid}

\* C14: after record_coinbase_tx for a coinbase c, the first time or again, the table
\* holds exactly one row for c, with inputs_hash = tx_id = txid(c), found_at = mined_at,
\* a time, absolute_fee = 0 and fee_rate = 0, and the transaction it stores has one
\* input, whose previous outpoint is null.
\* found_at and mined_at are two readings of the clock, a second apart when the second
\* turns between them.
C14_CoinbaseRow ==
    (CalledOn("record_coinbase_tx") /\ is_coinbase(Transaction(call.tx))) =>
        LET txid == compute_txid(Transaction(call.tx))
        IN  /\ call.ret = "Ok"
            /\ Cardinality(RowsOf(transactions, txid)) = 1
            /\ \A r \in RowsOf(transactions, txid) :
                  /\ r.inputs_hash = txid
                  /\ r.tx_id = txid
                  /\ r.mined_at # NULL
                  /\ r.found_at = r.mined_at
                  /\ r.absolute_fee = 0
                  /\ r.fee_rate = 0
                  /\ Len(Transaction(r.tx_data.id).input) = 1
                  /\ Transaction(r.tx_data.id).input[1].previous_output = NullOutPoint

C19_NotInList ==
    call.op = "txids_of_txs_not_in_list" =>
        /\ call.ret = "Ok"
        /\ call.txids = {} => call.out = {}
        /\ call.txids # {} =>
              call.out = {r.tx_id : r \in {x \in transactions :
                                              /\ x.mined_at = NULL
                                              /\ x.pruned_at = NULL
                                              /\ x.tx_id \notin call.txids}}
        /\ transactions = call.before.transactions
        /\ rbf = call.before.rbf

\* C19: the method has been given a list that holds the tx_id of one live row and not
\* that of another, nor that of a row that is not live; it returned the second only
C19_Witness ==
    /\ call.op = "txids_of_txs_not_in_list"
    /\ \E r \in transactions : Live(r) /\ r.tx_id \in call.txids
    /\ \E r \in transactions : Live(r) /\ r.tx_id \notin call.txids /\ call.out = {r.tx_id}
    /\ \E r \in transactions : ~Live(r) /\ r.tx_id \notin call.txids

\* C17: after insert_mempool_tx for a transaction c, called while the store holds a
\* live row with the tx_id of the previous output of c's input, the row of c has
\* parent_txid = that tx_id.
\* The INSERT names no parent_txid; and the call returns the error of its UPDATE of
\* the parent before the INSERT.
C17_ChildHasParentTxid ==
    (/\ CalledOn("insert_mempool_tx")
     /\ LiveParentExists(call.before.transactions,
                         Transaction(call.tx).input[1].previous_output.txid)) =>
        \E r \in WithHash(transactions, CallHash) :
            /\ r.tx_id = compute_txid(Transaction(call.tx))
            /\ r.parent_txid = Transaction(call.tx).input[1].previous_output.txid

----------------------------------------------------------------------------
(* The migrator alone: run_migrations one statement at a time, on a file   *)
(* an earlier start has left.  The process may be killed between two       *)
(* statements, and is then started again.                                  *)

\* the file after the first k migrations: what a release that had k of them left
RECURSIVE MigratedTo(_)
MigratedTo(k) ==
    IF k = 0 THEN [columns |-> CreatedColumns, migrations |-> {}]
    ELSE [columns |-> MigrationColumns(k, MigratedTo(k - 1).columns),
          migrations |-> MigratedTo(k - 1).migrations \cup {MigrationIds[k]}]

\* the id a migration of a later release has put into the ledger, and its column
LaterId == "added_by_a_later_release"
LaterColumn == "transactions.added_by_a_later_release"

\* the files a start finds: new, left by a release with fewer migrations, left by
\* this one, or left by a later one (a downgrade)
Files ==
    {MigratedTo(k) : k \in 0..Len(MigrationIds)} \cup
    {[columns |-> MigratedTo(Len(MigrationIds)).columns \cup {LaterColumn},
      migrations |-> MigratedTo(Len(MigrationIds)).migrations \cup {LaterId}]}

\* what is kept of the run before: how it ended, at which statement, what it executed
NoRun == [ret |-> "none", at |-> "none", executed |-> <<>>]

\* the loop of run_migrations goes on after migration c.i, or returns Ok after the last
AfterMigration(c) ==
    IF c.i = Len(MigrationIds) THEN [c EXCEPT !.ret = "Ok", !.at = "returned"]
    ELSE [c EXCEPT !.i = c.i + 1, !.at = "already_applied"]

\* what a step of the migrator leaves alone
migrate_unchanged ==
    UNCHANGED <<transactions, rbf, mempool_tbl, mining_info, node_vars, zmq, clock, queue,
                closed, worker_vars, app, srcs, shutdown_sent, flushed, started, boot, cfg, blist>>

\* the process starts and calls run_migrations
StartRun ==
    /\ call.ret # "running"
    /\ budget > 0
    /\ budget' = budget - 1
    /\ call' = [op |-> "run_migrations", i |-> 1, at |-> "already_applied", ret |-> "running",
                executed |-> <<>>,
                before |-> [columns |-> columns, migrations |-> migrations],
                prev |-> IF call.op = "run_migrations"
                         THEN [ret |-> call.ret, at |-> call.at, executed |-> call.executed]
                         ELSE NoRun]
    /\ UNCHANGED <<columns, migrations>>
    /\ migrate_unchanged

\* run_migrations: already_applied for the migration the loop is at
MigrationCheck ==
    /\ call.ret = "running"
    /\ call.at = "already_applied"
    /\ call' = IF already_applied(migrations, MigrationIds[call.i])
               THEN AfterMigration(call)
               ELSE [call EXCEPT !.at = "alter"]
    /\ UNCHANGED <<columns, migrations, budget>>
    /\ migrate_unchanged

\* migrate: the ALTER TABLE; run_migrations returns its error
MigrationAlter ==
    /\ call.ret = "running"
    /\ call.at = "alter"
    /\ IF MigrationApplies(call.i, columns)
       THEN /\ columns' = MigrationColumns(call.i, columns)
            /\ call' = [call EXCEPT !.at = "insert", !.executed = Append(call.executed, call.i)]
       ELSE /\ call' = [call EXCEPT !.ret = "Err", !.at = "returned"]
            /\ UNCHANGED columns
    /\ UNCHANGED <<migrations, budget>>
    /\ migrate_unchanged

\* migrate: the INSERT INTO migrations
MigrationInsert ==
    /\ call.ret = "running"
    /\ call.at = "insert"
    /\ migrations' = migrations \cup {MigrationIds[call.i]}
    /\ call' = AfterMigration(call)
    /\ UNCHANGED <<columns, budget>>
    /\ migrate_unchanged

\* the process is killed while run_migrations is between two statements
Kill ==
    /\ call.ret = "running"
    /\ call' = [call EXCEPT !.ret = "killed"]
    /\ UNCHANGED <<columns, migrations, budget>>
    /\ migrate_unchanged

InitMigrator ==
    /\ \E file \in Files :
          /\ columns = file.columns
          /\ migrations = file.migrations
    /\ transactions = {}
    /\ rbf = {}
    /\ mempool_tbl = <<>>
    /\ mining_info = <<>>
    /\ node_mempool = {}
    /\ node_confirmed = {}
    /\ node_height = 1
    /\ node_ibd = FALSE
    /\ node_loaded = TRUE
    /\ zmq = <<>>
    /\ clock = 1
    /\ budget = MaxStarts
    /\ queue = <<>>
    /\ closed = FALSE
    /\ wpc = [w \in Workers |-> "idle"]
    /\ NoWorkerState
    /\ app = "down"
    /\ srcs = [s \in Sources |-> "off"]
    /\ shutdown_sent = FALSE
    /\ flushed = FALSE
    /\ started = FALSE
    /\ boot = Store
    /\ cfg = [prune |-> TRUE, mining |-> TRUE]
    /\ blist = {}
    /\ call = NoCall

NextMigrator ==
    \/ StartRun
    \/ MigrationCheck
    \/ MigrationAlter
    \/ MigrationInsert
    \/ Kill

SpecMigrator == InitMigrator /\ [][NextMigrator]_vars

----------------------------------------------------------------------------
(* Properties of run_migrations, checked under SpecMigrator *)

\* the migrations before migration i, or up to it, whose id the ledger does not hold
Absent(ledger, upto) ==
    SelectSeq([j \in 1..upto |-> j], LAMBDA j : MigrationIds[j] \notin ledger)

\* the ids of the migrations in the sequence
IdsOf(executed) == {MigrationIds[executed[j]] : j \in DOMAIN executed}

\* C21: run_migrations executes, in the order of its list, the migrations whose id the
\* ledger does not hold and no other, and adds one ledger row for each whose migrate
\* has returned: at every statement of a run, what it has executed is what was absent
\* up to where its loop is, and the ledger is the one it found plus those ids; a run
\* that returns Ok has done so for the four of them, and leaves what the whole of
\* run_migrations computes from the file.  A run that follows a run that returned Ok
\* executes nothing and returns Ok with the file untouched.  An id of the ledger that is
\* none of the four is kept and changes nothing of this.
C21_RunMigrations ==
    call.op = "run_migrations" =>
        LET done == IF call.at \in {"already_applied", "alter"} THEN call.i - 1 ELSE call.i
            rows == IF call.at = "insert" THEN call.i - 1 ELSE done
        IN  /\ call.ret \in {"running", "Ok"} =>
                  /\ call.executed = Absent(call.before.migrations, done)
                  /\ migrations = call.before.migrations \cup IdsOf(Absent(call.before.migrations, rows))
               \* a row for each: the ledger has grown by the number executed
                  /\ Cardinality(migrations) =
                         Cardinality(call.before.migrations)
                             + Len(Absent(call.before.migrations, rows))
            /\ call.ret = "Ok" =>
                  /\ call.executed = Absent(call.before.migrations, Len(MigrationIds))
                  /\ [columns |-> columns, migrations |-> migrations, ok |-> TRUE] =
                         run_migrations(1, [columns |-> call.before.columns,
                                            migrations |-> call.before.migrations,
                                            ok |-> TRUE])
                  /\ LaterId \in call.before.migrations =>
                         LaterId \in migrations /\ LaterColumn \in columns
            /\ (call.ret = "Ok" /\ call.prev.ret = "Ok") =>
                  /\ call.executed = <<>>
                  /\ columns = call.before.columns
                  /\ migrations = call.before.migrations

\* C21: a second run in a row has returned, after a first that executed the last two
\* migrations on a file that held the rows of the first two
C21_Witness ==
    /\ call.op = "run_migrations"
    /\ call.ret = "Ok"
    /\ call.prev.ret = "Ok"
    /\ call.prev.executed = <<3, 4>>
    /\ call.executed = <<>>
    /\ columns = Migrated.columns
    /\ migrations = {MigrationIds[j] : j \in DOMAIN MigrationIds}

\* C22: a run of run_migrations that follows a run killed after the ALTER TABLE of a
\* migration and before its ledger row returns Ok, with the schema of a migrated file
\* and the four ledger rows.
\* The ALTER TABLE of the migration is run again, its id not being in the ledger, and
\* fails on the column it meets: run_migrations returns the error, at every start.
C22_CrashSurvivable ==
    (/\ call.op = "run_migrations"
     /\ call.ret \in {"Ok", "Err"}
     /\ call.prev.ret = "killed"
     /\ call.prev.at = "insert") =>
        /\ call.ret = "Ok"
        /\ columns \ {LaterColumn} = Migrated.columns
        /\ \A j \in DOMAIN MigrationIds : MigrationIds[j] \in migrations

----------------------------------------------------------------------------
(* App::run with a node that publishes nothing: the tickers, the workers   *)
(* and the shutdown, for every command line.  It starts where init has     *)
(* returned, or later in the run, when both workers have returned an error *)
(* and the tasks sent since have filled the queue.                         *)

\* the command lines: --disable-prune-check or not, --track-mining-interval or not
Configs == [prune : BOOLEAN, mining : BOOLEAN]

\* the sources run spawns for a command line
SpawnedFor(c) ==
    [s \in Sources |->
        IF (s = "prune" /\ ~c.prune) \/ (s = "mining" /\ ~c.mining) THEN "off" ELSE "select"]

\* the positions of App::run the model starts in: before the spawn of the sources, with
\* the workers in recv and the queue empty, or in the select!, with the workers ended
\* and the queue full
RunStarts ==
    {[app |-> "run_spawn", wpc |-> "recv", full |-> FALSE],
     [app |-> "select", wpc |-> "failed", full |-> TRUE]}

InitRun ==
    /\ cfg \in Configs
    /\ \E st \in RunStarts :
          /\ app = st.app
          /\ wpc = [w \in Workers |-> st.wpc]
          /\ queue = IF st.full THEN [i \in 1..QueueCap |-> MempoolState] ELSE <<>>
          /\ srcs = IF st.app = "select" THEN SpawnedFor(cfg) ELSE [s \in Sources |-> "off"]
    /\ transactions = {}
    /\ rbf = {}
    /\ mempool_tbl = <<>>
    /\ mining_info = <<>>
    /\ migrations = Migrated.migrations
    /\ columns = Migrated.columns
    /\ node_mempool = {}
    /\ node_confirmed = {}
    /\ node_height = 1
    /\ node_ibd = FALSE
    /\ node_loaded = TRUE
    /\ zmq = <<>>
    /\ clock = 1
    /\ budget = MaxTicks
    /\ closed = FALSE
    /\ NoWorkerState
    /\ shutdown_sent = FALSE
    /\ flushed = FALSE
    /\ started = TRUE
    /\ boot = Store
    /\ blist = {}
    /\ call = NoCall

NextRun ==
    \/ RunSpawn
    \/ \E s \in Tickers : Tick(s)
    \/ \E s \in Sources : SendResumes(s)
    \/ \E s \in Sources : SourceShutdown(s)
    \/ ZmqError
    \/ ZmqEnd
    \/ CtrlC
    \/ \E s \in Sources \ {"mining"} : HandleDone(s)
    \/ AwaitMining
    \/ CloseQueue
    \/ Flush
    \/ Exit
    \/ \E w \in Workers :
          \/ Recv(w)
          \/ RecvClosed(w)
          \/ MiningInfoTask(w)
          \/ MempoolStateTask(w)
          \/ PruneFetch(w)
          \/ PruneDiff(w)
          \/ PruneWrite(w)

SpecRun == InitRun /\ [][NextRun]_vars

\* what the runtime does of itself: a task that can go on is polled again.  A source whose
\* shutdown.recv() or send can complete goes on, a worker whose recv or request can
\* complete goes on, and so does run past its select!.  The interrupt, the timers and
\* the stream are not the runtime's to bring about.
RunFairness ==
    /\ \A s \in Sources : WF_vars(SourceShutdown(s))
    /\ \A s \in Sources : WF_vars(SendResumes(s))
    /\ \A w \in Workers :
          WF_vars(\/ Recv(w)
                  \/ RecvClosed(w)
                  \/ MiningInfoTask(w)
                  \/ MempoolStateTask(w)
                  \/ PruneFetch(w)
                  \/ PruneDiff(w)
                  \/ PruneWrite(w))
    /\ WF_vars(RunSpawn)
    /\ WF_vars(\E s \in Sources \ {"mining"} : HandleDone(s))
    /\ WF_vars(AwaitMining)
    /\ WF_vars(CloseQueue)
    /\ WF_vars(Flush)
    /\ WF_vars(Exit)

FairSpecRun == InitRun /\ [][NextRun]_vars /\ RunFairness

----------------------------------------------------------------------------
(* Properties of App::run, checked under SpecRun *)

\* a task of the kind is in the queue
Queued(kind) == \E i \in DOMAIN queue : queue[i].kind = kind

\* C23: with the prune check disabled no PruneCheck task is in the queue or in the
\* hands of a worker, and the prune ticker does not run; with the mining info off the
\* same of MiningInfo and its ticker; and run starts the MempoolState ticker and the
\* subscriber whatever the two settings are.
C23_DisabledSourcesSendNothing ==
    /\ [](/\ ~cfg.prune =>
               /\ ~Queued("PruneCheck")
               /\ \A w \in Workers : wpc[w] \notin {"prune_fetch", "prune_diff", "prune_write"}
               /\ srcs["prune"] = "off"
          /\ ~cfg.mining =>
               /\ ~Queued("MiningInfo")
               /\ \A w \in Workers : wpc[w] # "mining_info"
               /\ mining_info = <<>>
               /\ srcs["mining"] = "off")
    /\ [][(app = "run_spawn" /\ app' # app) =>
             /\ srcs'["mempool_state"] = "select"
             /\ srcs'["zmq"] = "select"
             /\ srcs'["prune"] = "select" <=> cfg.prune
             /\ srcs'["mining"] = "select" <=> cfg.mining]_vars

\* C23: with the prune check disabled and the mining info on, a MempoolState task has
\* been handled and a MiningInfo task is in the queue, the subscriber still running
C23_Witness ==
    /\ ~cfg.prune
    /\ cfg.mining
    /\ srcs["prune"] = "off"
    /\ Len(mempool_tbl) = 1
    /\ Queued("MiningInfo")
    /\ srcs["zmq"] = "select"

\* C29: a worker returns Ok only from tasks.recv() on the closed and empty queue; on the
\* closed queue a worker in recv that goes on takes the task at the head; and when the
\* process exits after the close, the queue is empty and every worker has returned Ok.
\* run returns after close() and flush() without awaiting a worker, and a worker whose
\* task fails returns the error and receives no more.
C29_WorkersDrainClosedQueue ==
    [][/\ \A w \in Workers :
             (wpc[w] # "stopped" /\ wpc'[w] = "stopped") =>
                 wpc[w] = "recv" /\ closed /\ queue = <<>>
       /\ \A w \in Workers :
             (closed /\ queue # <<>> /\ wpc[w] = "recv" /\ wpc'[w] # "recv" /\ app' # "down") =>
                 queue' = Tail(queue)
       /\ (closed /\ app # "down" /\ app' = "down") =>
             /\ queue = <<>>
             /\ \A w \in Workers : wpc[w] = "stopped"]_vars

\* C30: once the shutdown broadcast is sent, every source (the three tickers and the
\* subscriber) comes to an end: none stays in its select! or suspended in send.
\* Checked under FairSpecRun.  A source suspended in send on the full queue does not poll
\* shutdown.recv(); with no worker left to take a task it goes on only when the queue is
\* closed, and run closes the queue only after the mining info ticker has ended.
C30_SourcesTerminateAfterBroadcast ==
    shutdown_sent ~> (\A s \in Sources : srcs[s] \notin {"select", "send"})

\* C35: once run has left its select!, by the interrupt or by the end of the
\* mempool-state ticker, the prune ticker or the subscriber, it returns.
\* Checked under FairSpecRun.  When a source ends with Ok (the stream of the subscriber
\* ends), run goes on to await the mining info ticker, and no shutdown has been
\* broadcast to it: the ticker goes on ticking and run does not return.
C35_RunReturns ==
    (app = "await_mining") ~> (app \in Returned)

----------------------------------------------------------------------------
(* The fee resolver alone: get_absolute_fee, compute_fee_rate and the      *)
(* insert of the row, in the order run calls them, for a transaction with  *)
(* any output value and any weight.                                        *)

\* the transactions the resolver is given: A, funded by an output of 100, its child C,
\* funded by an output of 60, and the coinbase K, with one output of the value
FeeTx(p, value, weight) == [Transaction(p) EXCEPT !.output = <<value>>, !.weight = weight]

FeeTxs == {"A", "C", "K"}

\* the transaction of the arguments
ArgTx == FeeTx(call.tx, call.value, call.weight)

\* what a step of the resolver leaves alone
fee_unchanged ==
    UNCHANGED <<rbf, mempool_tbl, mining_info, migrations, columns, node_vars, zmq, clock, budget,
                queue, closed, worker_vars, app, srcs, shutdown_sent, flushed, started, boot,
                cfg, blist>>

\* run: get_absolute_fee
ApplyGetAbsoluteFee ==
    /\ call.op = "args"
    /\ call' = [call EXCEPT !.op = "get_absolute_fee",
                            !.fee = GetAbsoluteFee(ArgTx, call.resolves)]
    /\ UNCHANGED transactions
    /\ fee_unchanged

\* run: compute_fee_rate, with the fee get_absolute_fee returned
ApplyComputeFeeRate ==
    /\ call.op = "get_absolute_fee"
    /\ call.fee.ret = "Ok"
    /\ call' = [call EXCEPT !.op = "compute_fee_rate",
                            !.rate = ComputeFeeRate(ArgTx, call.fee.value)]
    /\ UNCHANGED transactions
    /\ fee_unchanged

\* run: insert_mempool_tx, with the fee and the rate; it writes
\* fee_rate.to_sat_per_vb_ceil() into the column
ApplyInsertMempoolTx ==
    /\ call.op = "compute_fee_rate"
    /\ call.rate.ret = "Ok"
    /\ ~is_coinbase(ArgTx)
    /\ call' = [call EXCEPT !.op = "insert_mempool_tx"]
    /\ transactions' = InsertMempoolTx(transactions, columns, ArgTx, NULL, clock, call.fee.value,
                                       to_sat_per_vb_ceil(call.rate.sat_kwu)).transactions
    /\ fee_unchanged

InitFee ==
    /\ \E p \in FeeTxs, value \in 0..MaxValue, weight \in 1..MaxWeight, resolves \in BOOLEAN :
          call = [op |-> "args", tx |-> p, value |-> value, weight |-> weight,
                  resolves |-> resolves, fee |-> [ret |-> "none"], rate |-> [ret |-> "none"]]
    /\ transactions = {}
    /\ rbf = {}
    /\ mempool_tbl = <<>>
    /\ mining_info = <<>>
    /\ migrations = Migrated.migrations
    /\ columns = Migrated.columns
    /\ node_mempool = {}
    /\ node_confirmed = {}
    /\ node_height = 1
    /\ node_ibd = FALSE
    /\ node_loaded = TRUE
    /\ zmq = <<>>
    /\ clock = 1
    /\ budget = 0
    /\ queue = <<>>
    /\ closed = FALSE
    /\ wpc = [w \in Workers |-> "idle"]
    /\ NoWorkerState
    /\ app = "down"
    /\ srcs = [s \in Sources |-> "off"]
    /\ shutdown_sent = FALSE
    /\ flushed = FALSE
    /\ started = TRUE
    /\ boot = Store
    /\ cfg = [prune |-> TRUE, mining |-> TRUE]
    /\ blist = {}

NextFee ==
    \/ ApplyGetAbsoluteFee
    \/ ApplyComputeFeeRate
    \/ ApplyInsertMempoolTx

SpecFee == InitFee /\ [][NextFee]_vars

----------------------------------------------------------------------------
(* Properties of the fee resolver, checked under SpecFee *)

\* the values of the previous outputs of tx, and of its outputs
InputValue(tx) == SumSeq([i \in DOMAIN tx.input |-> PrevOutValue(tx.input[i].previous_output)])
OutputValue(tx) == SumSeq(tx.output)

\* C25: get_absolute_fee returns 0 for a coinbase and otherwise the values of the
\* previous outputs less the values of the outputs; when that is below zero, or a
\* previous transaction cannot be fetched, it returns an error (which run logs, dropping
\* the task), and in no case does it end the worker.
\* The subtraction of two Amounts panics below zero: the worker's task ends there.
C25_AbsoluteFee ==
    call.op \in {"get_absolute_fee", "compute_fee_rate", "insert_mempool_tx"} =>
        /\ call.fee.ret \in {"Ok", "Err"}
        /\ is_coinbase(ArgTx) => call.fee = [ret |-> "Ok", value |-> 0]
        /\ ~is_coinbase(ArgTx) =>
              IF call.resolves /\ InputValue(ArgTx) >= OutputValue(ArgTx)
              THEN call.fee = [ret |-> "Ok", value |-> InputValue(ArgTx) - OutputValue(ArgTx)]
              ELSE call.fee.ret = "Err"

\* the quotient of a by b rounded down, and rounded up
Floor(a, b) == CHOOSE q \in 0..a : q * b <= a /\ a < (q + 1) * b
Ceil(a, b) == CHOOSE q \in 0..a : (q - 1) * b < a /\ a <= q * b

\* C26: compute_fee_rate returns Ok for every fee, 0 included, and the rate it returns,
\* as the integer insert_mempool_tx writes into the column fee_rate, is 0 for a coinbase
\* and otherwise the fee divided by the virtual size, rounded down, the virtual size
\* being the weight divided by 4, rounded up; so it is 0 for a fee of 0.
C26_FeeRate ==
    call.op \in {"compute_fee_rate", "insert_mempool_tx"} =>
        LET expected == IF is_coinbase(ArgTx) THEN 0
                        ELSE Floor(call.fee.value, Ceil(call.weight, 4))
        IN  /\ call.rate.ret = "Ok"
            /\ to_sat_per_vb_ceil(call.rate.sat_kwu) = expected
            /\ call.fee.value = 0 => to_sat_per_vb_ceil(call.rate.sat_kwu) = 0
            /\ compute_fee_rate(ArgTx, call.fee.value) = expected
            /\ call.op = "insert_mempool_tx" =>
                  /\ Cardinality(transactions) = 1
                  /\ \A r \in transactions :
                        r.fee_rate = expected /\ r.absolute_fee = call.fee.value

\* C26: the row of a transaction of weight 5 (2 vbytes) and fee 7 holds fee_rate 3
C26_Witness ==
    /\ call.op = "insert_mempool_tx"
    /\ call.weight = 5
    /\ call.fee = [ret |-> "Ok", value |-> 7]
    /\ \E r \in transactions : r.fee_rate = 3 /\ r.absolute_fee = 7

====
